---------------------------- MODULE Spec2Model ----------------------------
(***************************************************************************)
(* Shorty: the link store, the redirect handler (getLink, recordVisit and  *)
(* the daily rollup it starts) and the link service operations            *)
(* (createLink, updateLink, deleteLink, cleanupExpiredLinks), as          *)
(* concurrent requests against one database.  One action is one stretch   *)
(* of a handler between two awaits on the database or the network.        *)
(***************************************************************************)
EXTENDS Integers, Sequences, FiniteSets, TLC

(***************************************************************************)
(* Bounds of the model.                                                    *)
(***************************************************************************)
MaxTime == 2        \* the clock runs 0..MaxTime
TicksPerDay == 2    \* clock ticks in one calendar day
MaxCreates == 3     \* createLink requests of a run
MaxVisits == 2      \* redirect requests of a run
MaxEdits == 1       \* update, delete and cleanup requests of a run
MaxToggles == 3     \* toggle and link-detail requests of a run
MaxFailures == 2    \* database statements that fail in a run
MaxProcs == 2       \* requests in flight at one time
MaxCount == 2       \* suggestions asked of generateSlugSuggestions
MaxSmallNumber == 130   \* numberToBase62 is tried on every number up to this one

Procs == 1..MaxProcs

\* getClientIP and parseUserAgent(...).device_type of a request: a phone at
\* a public address, a desktop with no address header (the loopback default)
Phone == [ip |-> "203.0.113.7", device |-> "mobile"]
Desktop == [ip |-> "127.0.0.1", device |-> "desktop"]

\* What happens in one run: how many requests of each kind the clients send,
\* who visits, how many requests are in flight at a time, how many database
\* statements fail (and how many have failed) and how far the clock moves.
\* In turn: redirects of one link while the database fails; a link from
\* creation to cleanup; creations in parallel; a link toggled and read back;
\* redirects of one link in parallel; two links edited and cleaned up.
Workloads ==
    { [creates |-> 1, visits |-> MaxVisits, visitors |-> {Phone, Desktop},
       edits |-> 0, toggles |-> 0, failures |-> MaxFailures, failed |-> 0,
       ticks |-> 1, parallel |-> 1],
      [creates |-> 1, visits |-> MaxVisits, visitors |-> {Phone},
       edits |-> MaxEdits, toggles |-> 0, failures |-> 0, failed |-> 0,
       ticks |-> MaxTime, parallel |-> 1],
      [creates |-> MaxCreates, visits |-> 0, visitors |-> {},
       edits |-> 0, toggles |-> 0, failures |-> 0, failed |-> 0,
       ticks |-> MaxTime, parallel |-> MaxProcs],
      [creates |-> 1, visits |-> 1, visitors |-> {Phone},
       edits |-> 0, toggles |-> MaxToggles, failures |-> 1, failed |-> 0,
       ticks |-> 0, parallel |-> 1],
      [creates |-> 1, visits |-> MaxVisits, visitors |-> {Phone},
       edits |-> 0, toggles |-> 0, failures |-> 0, failed |-> 0,
       ticks |-> 1, parallel |-> MaxProcs],
      [creates |-> 2, visits |-> 0, visitors |-> {},
       edits |-> MaxEdits + 1, toggles |-> 0, failures |-> 0, failed |-> 0,
       ticks |-> MaxTime, parallel |-> 1] }

(***************************************************************************)
(* Values.                                                                 *)
(***************************************************************************)
NULL == -1          \* expires_at IS NULL; an absent id
NoSlug == << >>     \* request.customSlug absent (or the empty string)
NoUrl == << >>      \* request.originalUrl absent

Rep(ch, n) == [i \in 1..n |-> ch]

(***************************************************************************)
(* Program constants.                                                      *)
(***************************************************************************)
defaultExpireDays == 365    \* LinkServiceConfig.defaultExpireDays
enableExpiration == TRUE    \* LinkServiceConfig.enableExpiration
enableCustomSlug == TRUE    \* LinkServiceConfig.enableCustomSlug
enableAnalytics == TRUE     \* RedirectConfig / LinkServiceConfig.enableAnalytics
minSlugLength == 4
maxSlugLength == 16
slugLength == 6             \* createLink's slugConfig.length
maxRetries == 10            \* createLink's slugConfig.maxRetries
AccessLogLimit == 1000      \* updateDailyStatsAsync reads at most this many rows

Digits == {"0","1","2","3","4","5","6","7","8","9"}
Lower == {"a","b","c","d","e","f","g","h","i","j","k","l","m",
          "n","o","p","q","r","s","t","u","v","w","x","y","z"}
Upper == {"A","B","C","D","E","F","G","H","I","J","K","L","M",
          "N","O","P","Q","R","S","T","U","V","W","X","Y","Z"}
BASE62_CHARS == Lower \cup Upper \cup Digits

\* String.toLowerCase on one character
ToLowerChar(c) ==
    CASE c = "A" -> "a" [] c = "B" -> "b" [] c = "C" -> "c" [] c = "D" -> "d"
      [] c = "E" -> "e" [] c = "F" -> "f" [] c = "G" -> "g" [] c = "H" -> "h"
      [] c = "I" -> "i" [] c = "J" -> "j" [] c = "K" -> "k" [] c = "L" -> "l"
      [] c = "M" -> "m" [] c = "N" -> "n" [] c = "O" -> "o" [] c = "P" -> "p"
      [] c = "Q" -> "q" [] c = "R" -> "r" [] c = "S" -> "s" [] c = "T" -> "t"
      [] c = "U" -> "u" [] c = "V" -> "v" [] c = "W" -> "w" [] c = "X" -> "x"
      [] c = "Y" -> "y" [] c = "Z" -> "z"
      [] OTHER -> c

toLowerCase(s) == [i \in 1..Len(s) |-> ToLowerChar(s[i])]

\* String.includes(word)
includes(s, word) ==
    \E i \in 0..(Len(s) - Len(word)) :
        \A j \in 1..Len(word) : s[i + j] = word[j]

\* String.startsWith(prefix)
startsWith(s, prefix) ==
    Len(s) >= Len(prefix) /\ \A j \in 1..Len(prefix) : s[j] = prefix[j]

UNSAFE_WORDS ==
    { <<"a","d","m","i","n">>, <<"a","p","i">>, <<"w","w","w">>, <<"m","a","i","l">>,
      <<"f","t","p">>, <<"r","o","o","t">>, <<"t","e","s","t">>, <<"d","e","b","u","g">>,
      <<"c","o","n","f","i","g">>, <<"l","o","g","i","n">>, <<"a","u","t","h">>,
      <<"u","s","e","r">>, <<"p","a","s","s">>, <<"s","e","x">>, <<"f","u","c","k">>,
      <<"s","h","i","t">>, <<"d","a","m","n">>, <<"h","e","l","l">>, <<"p","o","r","n">> }

AllIn(s, chars) == Len(s) > 0 /\ \A i \in 1..Len(s) : s[i] \in chars

\* DEFAULT_CONFIG of the slug generator
DEFAULT_CONFIG ==
    [ length |-> 6, maxRetries |-> 10, minLength |-> 4, maxLength |-> 16,
      excludeChars |-> {}, customChars |-> BASE62_CHARS ]

\* { ...defaults, ...config }: config is a record with some of the fields
Merge(defaults, config) ==
    [k \in DOMAIN defaults |-> IF k \in DOMAIN config THEN config[k] ELSE defaults[k]]

\* the config createLink passes to validateCustomSlug
customSlugConfig == [minLength |-> minSlugLength, maxLength |-> maxSlugLength]

\* the config createLink passes to generateSlug
slugConfig ==
    [ length |-> slugLength, maxRetries |-> maxRetries,
      minLength |-> minSlugLength, maxLength |-> maxSlugLength ]

isValidSlugFormat(slug, config) ==
    LET c == Merge(DEFAULT_CONFIG, config)
    IN  /\ ~(Len(slug) < c.minLength \/ Len(slug) > c.maxLength)
        /\ \A i \in 1..Len(slug) : slug[i] \in c.customChars
        /\ \A excludeChar \in c.excludeChars : ~includes(slug, excludeChar)

isSafeSlug(slug) ==
    /\ LET lowerSlug == toLowerCase(slug)
       IN  \A w \in UNSAFE_WORDS : ~includes(lowerSlug, w)
    /\ ~AllIn(slug, Digits)
    /\ ~(AllIn(slug, {"0"}) \/ AllIn(slug, {"O", "o"}))
    /\ ~(AllIn(slug, {"1"}) \/ AllIn(slug, {"l", "L"}) \/ AllIn(slug, {"I", "i"}))

\* String.trim: the blanks at both ends go
trim(s) ==
    LET solid == {i \in 1..Len(s) : s[i] # " "}
    IN  IF solid = {} THEN << >>
        ELSE SubSeq(s, CHOOSE i \in solid : \A j \in solid : i <= j,
                       CHOOSE i \in solid : \A j \in solid : i >= j)

\* validateCustomSlug: errors is the list of messages pushed, as a set of
\* their kinds.  Inside the format branch only the two lengths and the
\* characters outside BASE62_CHARS push a message.
validateCustomSlug(customSlug, config) ==
    LET normalizedSlug == trim(customSlug)
        c == Merge(DEFAULT_CONFIG, config)
        formatErrors ==
            IF ~isValidSlugFormat(normalizedSlug, config)
            THEN (IF Len(normalizedSlug) < c.minLength THEN {"too-short"} ELSE {})
                 \cup (IF Len(normalizedSlug) > c.maxLength THEN {"too-long"} ELSE {})
                 \cup (IF \E i \in 1..Len(normalizedSlug) :
                              normalizedSlug[i] \notin BASE62_CHARS
                       THEN {"invalid-chars"} ELSE {})
            ELSE {}
        errors == formatErrors
                  \cup (IF ~isSafeSlug(normalizedSlug) THEN {"unsafe"} ELSE {})
    IN  IF customSlug = NoSlug \/ normalizedSlug = << >>
        THEN [isValid |-> FALSE, slug |-> NoSlug, errors |-> {"empty"}]
        ELSE IF errors # {}
             THEN [isValid |-> FALSE, slug |-> NoSlug, errors |-> errors]
             ELSE [isValid |-> TRUE, slug |-> normalizedSlug, errors |-> {}]

\* What generateTimestampSlug / generateRandomSlug can return for a target
\* length: any string of that length over the charset; these two stand for
\* them.
Candidates(len) == { Rep("x", len), Rep("y", len) }

\* (a turn that leaves out the safety check)
slugVerdictUnchecked(slug, finalConfig, exists) ==
    IF ~isValidSlugFormat(slug, finalConfig) THEN "format"
    ELSE IF exists THEN "collision"
    ELSE "accepted"

\* generateSlug, what one turn of its loop makes of its candidate: rejected
\* for its format, rejected as unsafe, found to exist, or returned.
slugVerdict(slug, finalConfig, exists) ==
    IF ~isValidSlugFormat(slug, finalConfig) THEN "format"
    ELSE IF ~isSafeSlug(slug) THEN "unsafe"
    ELSE IF exists THEN "collision"
    ELSE "accepted"

\* (the length growing only once more than half of the attempts are made)
nextLengthAboveHalf(attempts, finalConfig) ==
    IF 2 * attempts > finalConfig.maxRetries
    THEN IF finalConfig.length + 1 <= finalConfig.maxLength
         THEN finalConfig.length + 1 ELSE finalConfig.maxLength
    ELSE finalConfig.length

\* ... and finalConfig.length after a collision in turn number attempts
nextLength(attempts, finalConfig) ==
    IF attempts >= finalConfig.maxRetries \div 2
    THEN IF finalConfig.length + 1 <= finalConfig.maxLength
         THEN finalConfig.length + 1 ELSE finalConfig.maxLength
    ELSE finalConfig.length

(***************************************************************************)
(* The Base62 codec.  A JavaScript number holding a non-negative integer   *)
(* below Limb * Limb (exact in a double) is kept as two limbs,             *)
(* hi * Limb + lo, and %, Math.floor(x / base) and x * base + i are        *)
(* computed on the limbs.                                                  *)
(***************************************************************************)
Limb == 1000000
Num(hi, lo) == [hi |-> hi, lo |-> lo]
Zero == Num(0, 0)

\* num % base
numMod(num, base) == ((num.hi % base) * (Limb % base) + num.lo) % base

\* Math.floor(num / base)
numFloorDiv(num, base) ==
    Num(num.hi \div base, ((num.hi % base) * Limb + num.lo) \div base)

\* result * base + charIndex
numMulAdd(result, base, charIndex) ==
    LET low == result.lo * base + charIndex
    IN  Num(result.hi * base + low \div Limb, low % Limb)

\* BASE62_CHARS as the string it is: a-z, A-Z, 0-9
BASE62_STRING ==
    << "a","b","c","d","e","f","g","h","i","j","k","l","m",
       "n","o","p","q","r","s","t","u","v","w","x","y","z",
       "A","B","C","D","E","F","G","H","I","J","K","L","M",
       "N","O","P","Q","R","S","T","U","V","W","X","Y","Z",
       "0","1","2","3","4","5","6","7","8","9" >>

\* String.indexOf(char): the first position, counted from 0, or -1
indexOf(charset, char) ==
    IF \E i \in 1..Len(charset) : charset[i] = char
    THEN (CHOOSE i \in 1..Len(charset) :
            /\ charset[i] = char
            /\ \A j \in 1..(i - 1) : charset[j] # char) - 1
    ELSE -1

\* numberToBase62's while loop: result = charset[num % base] + result
RECURSIVE encodeLoop(_, _, _)
encodeLoop(num, charset, result) ==
    IF num = Zero THEN result
    ELSE encodeLoop(numFloorDiv(num, Len(charset)), charset,
                    << charset[numMod(num, Len(charset)) + 1] >> \o result)

\* (the encoder without its first line)
numberToBase62NoZeroCase(num, charset) == encodeLoop(num, charset, << >>)

numberToBase62(num, charset) ==
    IF num = Zero THEN << charset[1] >> ELSE encodeLoop(num, charset, << >>)

\* base62ToNumber's for loop from position i on; a character outside the
\* charset throws
RECURSIVE decodeLoop(_, _, _, _)
decodeLoop(encoded, charset, i, result) ==
    IF i > Len(encoded) THEN [threw |-> FALSE, value |-> result]
    ELSE LET charIndex == indexOf(charset, encoded[i])
         IN  IF charIndex = -1 THEN [threw |-> TRUE, value |-> Zero]
             ELSE decodeLoop(encoded, charset, i + 1,
                             numMulAdd(result, Len(charset), charIndex))

base62ToNumber(encoded, charset) == decodeLoop(encoded, charset, 1, Zero)

(***************************************************************************)
(* URL validation.  A URL is the sequence of its characters.               *)
(***************************************************************************)
HttpPrefix == <<"h","t","t","p",":","/","/">>
HttpsPrefix == <<"h","t","t","p","s",":","/","/">>

\* the first position from `from` on that holds one of chars, or Len(s) + 1
firstOf(s, chars, from) ==
    IF \E i \in from..Len(s) : s[i] \in chars
    THEN CHOOSE i \in from..Len(s) :
            s[i] \in chars /\ \A j \in from..(i - 1) : s[j] \notin chars
    ELSE Len(s) + 1

\* String.lastIndexOf(ch), counted from 1; 0 if there is none
lastOf(s, ch) ==
    IF \E i \in 1..Len(s) : s[i] = ch
    THEN CHOOSE i \in 1..Len(s) : s[i] = ch /\ \A j \in (i + 1)..Len(s) : s[j] # ch
    ELSE 0

InvalidURL ==
    [ throws |-> TRUE, protocol |-> << >>, username |-> << >>, hostname |-> << >>,
      port |-> << >>, pathname |-> << >>, search |-> << >>, hash |-> << >> ]

\* new URL(text) for an http or https text, in four stretches: the scheme up
\* to its colon and the slashes after it; the authority up to the first "/",
\* "?" or "#"; in it the credentials before the last "@" and the port after
\* the last ":"; then the path up to "?" or "#", the query and the fragment.
\* The host is lower-cased, the scheme's default port is dropped and an
\* empty path is "/".  No scheme, no host, a blank in the host or a port
\* that is no number throws.  (Another scheme, dot segments and characters
\* that would be percent-encoded are not among the texts tried.)
urlRecord(text, protocol, stop, username, hostname, port, q, h) ==
    IF \/ protocol \notin { <<"h","t","t","p",":">>, <<"h","t","t","p","s",":">> }
       \/ hostname = << >>
       \/ " " \in {hostname[i] : i \in 1..Len(hostname)}
       \/ \E i \in 1..Len(port) : port[i] \notin Digits
    THEN InvalidURL
    ELSE [ throws |-> FALSE,
           protocol |-> protocol,
           username |-> username,
           hostname |-> hostname,
           port |-> IF port = (IF protocol = <<"h","t","t","p",":">>
                               THEN <<"8","0">> ELSE <<"4","4","3">>)
                    THEN << >> ELSE port,
           pathname |-> IF q = stop THEN <<"/">> ELSE SubSeq(text, stop, q - 1),
           search |-> SubSeq(text, q, h - 1),
           hash |-> SubSeq(text, h, Len(text)) ]

parseHost(text, protocol, stop, username, hostport, c) ==
    urlRecord(text, protocol, stop, username,
              toLowerCase(IF c = 0 THEN hostport ELSE SubSeq(hostport, 1, c - 1)),
              IF c = 0 THEN << >> ELSE SubSeq(hostport, c + 1, Len(hostport)),
              firstOf(text, {"?", "#"}, stop),
              firstOf(text, {"#"}, stop))

parseAuthority(text, protocol, stop, authority, at) ==
    parseHost(text, protocol, stop,
              SubSeq(authority, 1, at - 1),
              SubSeq(authority, at + 1, Len(authority)),
              lastOf(SubSeq(authority, at + 1, Len(authority)), ":"))

parseScheme(text, protocol, start, stop) ==
    parseAuthority(text, protocol, stop,
                   SubSeq(text, start, stop - 1),
                   lastOf(SubSeq(text, start, stop - 1), "@"))

afterColon(text, colon, start) ==
    parseScheme(text,
                IF colon > Len(text) THEN << >> ELSE toLowerCase(SubSeq(text, 1, colon)),
                start,
                firstOf(text, {"/", "?", "#"}, start))

newURL(text) ==
    afterColon(text, firstOf(text, {":"}, 1),
               firstOf(text, {text[i] : i \in 1..Len(text)} \ {"/"},
                       firstOf(text, {":"}, 1) + 1))

\* URL.toString()
toString(urlObj) ==
    urlObj.protocol \o <<"/","/">>
    \o (IF urlObj.username = << >> THEN << >> ELSE urlObj.username \o <<"@">>)
    \o urlObj.hostname
    \o (IF urlObj.port = << >> THEN << >> ELSE <<":">> \o urlObj.port)
    \o urlObj.pathname \o urlObj.search \o urlObj.hash

\* normalizeUrl after new URL(normalizedUrl): the host is in lower case
\* already; no default port; one slash off the end of a path other than "/".
\* Whatever threw, the catch returns the argument as it came.
normalizeParsed(url, urlObj) ==
    IF urlObj.throws THEN url
    ELSE toString([urlObj EXCEPT
            !.port = IF \/ urlObj.protocol = <<"h","t","t","p",":">>
                           /\ urlObj.port = <<"8","0">>
                        \/ urlObj.protocol = <<"h","t","t","p","s",":">>
                           /\ urlObj.port = <<"4","4","3">>
                     THEN << >> ELSE @,
            !.pathname = IF @ # <<"/">> /\ @[Len(@)] = "/"
                         THEN SubSeq(@, 1, Len(@) - 1) ELSE @])

\* normalizeUrl after the trim: https:// before a text without http(s)://
\* that has a dot or "localhost" in it; any other such text throws
normalizeTrimmed(url, normalizedUrl) ==
    IF \/ startsWith(toLowerCase(normalizedUrl), HttpPrefix)
       \/ startsWith(toLowerCase(normalizedUrl), HttpsPrefix)
    THEN normalizeParsed(url, newURL(normalizedUrl))
    ELSE IF \/ includes(normalizedUrl, <<".">>)
            \/ includes(toLowerCase(normalizedUrl), <<"l","o","c","a","l","h","o","s","t">>)
         THEN normalizeParsed(url, newURL(HttpsPrefix \o normalizedUrl))
         ELSE url

normalizeUrl(url) == normalizeTrimmed(url, trim(url))

DANGEROUS_DOMAINS ==
    { <<"l","o","c","a","l","h","o","s","t">>, <<"0",".","0",".","0",".","0">>,
      <<"1","2","7",".","0",".","0",".","1">>, <<":",":","1">> }

\* isSafeUrl: the host is not on the blacklist and the URL carries no
\* credentials (private addresses and dangerous ports are not among the
\* URLs tried)
isSafeParsed(urlObj) ==
    /\ ~urlObj.throws
    /\ urlObj.hostname \notin DANGEROUS_DOMAINS
    /\ urlObj.username = << >>

isSafeUrl(url) == isSafeParsed(newURL(url))

\* validateUrl after normalizeUrl
validateNormalized(url, normalizedUrl) ==
    [ isValid |-> url # NoUrl /\ isSafeUrl(normalizedUrl),
      normalizedUrl |-> normalizedUrl ]

validateUrl(url) == validateNormalized(url, normalizeUrl(url))

(***************************************************************************)
(* Time.                                                                   *)
(***************************************************************************)
\* formatDateToYMD, DATE(accessed_at): the calendar day of an instant.
formatDateToYMD(t) == t \div TicksPerDay

\* LinkService.isExpired
isExpiredSameDay(link, t) ==
    /\ link.expires_at # NULL
    /\ link.expires_at < t
    /\ formatDateToYMD(link.expires_at) = formatDateToYMD(t)
isExpiredNullAsPast(link, t) == link.expires_at < t
isExpired(link, t) == link.expires_at # NULL /\ link.expires_at < t

\* deleteExpiredLinks' WHERE clause.  expires_at holds an ISO-8601 text
\* ("2025-01-01T10:00:00.000Z") and datetime('now') yields
\* "2025-01-01 12:00:00": the texts are compared byte by byte, and 'T' sorts
\* after ' ', so a row matches exactly when its date is an earlier day.
SqlExpired(link, t) ==
    link.expires_at # NULL /\ formatDateToYMD(link.expires_at) < formatDateToYMD(t)

(***************************************************************************)
(* State.                                                                  *)
(***************************************************************************)
VARIABLES
    now,          \* the clock (new Date(), datetime('now'))
    links,        \* table links: rows [id, original_url, short_code, created_at, access_count, expires_at]
    nextLinkId,   \* links.id AUTOINCREMENT
    accessLogs,   \* table access_logs: rows [id, link_id, short_code, accessed_at, ip_address, device_type]
    nextLogId,    \* access_logs.id AUTOINCREMENT
    dailyStats,   \* table daily_stats: rows [link_id, date, created_at, stats]
    pc,           \* where each request stands in its handler
    loc,          \* each request's parameters and local variables
    resp,         \* the response sent last
    tasks,        \* updateDailyStatsAsync promises started by recordVisit and not settled
    taskFailed,   \* ids of the access logs whose rollup promise was rejected
    run,          \* the rest of the run: what of its workload is still to come
    everExpired,  \* short codes for which getLink has answered Expired
    expiredSince, \* ... and whose row was neither updated nor replaced since
    call          \* one call of a slug or expiry utility on its own: inputs, locals, result

vars == << now, links, nextLinkId, accessLogs, nextLogId, dailyStats,
           pc, loc, resp, tasks, taskFailed, run, everExpired, expiredSince, call >>

store == << links, nextLinkId, accessLogs, nextLogId, dailyStats >>
history == << everExpired, expiredSince >>

NoLoc ==
    [ kind |-> "none", code |-> NoSlug, url |-> NoUrl, id |-> NULL,
      outcome |-> "none", expires_at |-> NULL, failed |-> {},
      ip |-> "127.0.0.1", device |-> "desktop",
      log_id |-> 0, date |-> 0, custom |-> NoSlug, setExpiresAt |-> FALSE,
      expiresAt |-> NULL, expireDays |-> 0, attempts |-> 0, length |-> 0,
      accessCount |-> NULL, isActive |-> "undefined" ]

NoResp == [ status |-> 0, body |-> "none", code |-> NoSlug, url |-> NoUrl,
            expires_at |-> NULL, failed |-> {}, isActive |-> "undefined" ]

\* a daily_stats row as getOrCreateDailyStats inserts it
NoStats == [ total_visits |-> 0, unique_visitors |-> 0,
             mobile_visits |-> 0, desktop_visits |-> 0,
             tablet_visits |-> 0, bot_visits |-> 0 ]

\* no utility call
NoCall ==
    [ fn |-> "none", done |-> FALSE,
      config |-> << >>, finalConfig |-> DEFAULT_CONFIG,           \* generateSlug, validateCustomSlug
      attempts |-> 0, slug |-> NoSlug, exists |-> FALSE, verdict |-> "none",
      lengthBefore |-> 0, success |-> FALSE,
      input |-> NoSlug, validation |-> [isValid |-> FALSE, slug |-> NoSlug, errors |-> {}],
      count |-> 0, stage |-> "none", suggestions |-> {},           \* generateSlugSuggestions
      enabled |-> TRUE, expiresAt |-> NULL, expireDays |-> 0,      \* createLink's step 4
      at |-> 0, result |-> NULL,
      num |-> Zero, encoded |-> << >>,                             \* the Base62 codec
      decoded |-> [threw |-> FALSE, value |-> Zero],
      once |-> NoUrl, twice |-> NoUrl,                             \* normalizeUrl
      logs |-> {}, today |-> 0, stats |-> NoStats ]                \* updateDailyStatsAsync

Init ==
    /\ now = 0
    /\ links = {}
    /\ nextLinkId = 1
    /\ accessLogs = {}
    /\ nextLogId = 1
    /\ dailyStats = {}
    /\ pc = [p \in Procs |-> "idle"]
    /\ loc = [p \in Procs |-> NoLoc]
    /\ resp = NoResp
    /\ tasks = {}
    /\ taskFailed = {}
    /\ run \in Workloads
    /\ everExpired = {}
    /\ expiredSince = {}
    /\ call = NoCall

\* A database statement may fail, as often as the run allows.
StoreFailures == IF run.failures > 0 THEN BOOLEAN ELSE {FALSE}
Fail(storeFails) ==
    run' = [run EXCEPT !.failures = IF storeFails THEN @ - 1 ELSE @,
                       !.failed = IF storeFails THEN @ + 1 ELSE @]

\* The clock only moves forward.
Tick ==
    /\ UNCHANGED call
    /\ now < MaxTime
    /\ run.ticks > 0
    /\ run' = [run EXCEPT !.ticks = @ - 1]
    /\ now' = now + 1
    /\ UNCHANGED << store, pc, loc, resp, tasks, taskFailed, history >>

(***************************************************************************)
(* DatabaseService: the statements, each on the tables it touches.         *)
(***************************************************************************)
\* SELECT * FROM links WHERE short_code = ?
getLinkByShortCode(ls, shortCode) == {l \in ls : l.short_code = shortCode}

\* SELECT * FROM links WHERE id = ?
getLinkById(ls, id) == {l \in ls : l.id = id}

\* SELECT * FROM links WHERE original_url = ? ORDER BY created_at DESC LIMIT 1
\* (the rows this can return: any of the latest ones).
getLinkByUrl(ls, url) ==
    {l \in ls : /\ l.original_url = url
                /\ \A m \in ls : m.original_url = url => m.created_at <= l.created_at}

\* UPDATE links SET access_count = access_count + 1 WHERE id = ?
dbIncrementTwice(ls, id) ==
    {IF l.id = id THEN [l EXCEPT !.access_count = @ + 2] ELSE l : l \in ls}
\* (the count written from what the service has read: the visits logged so
\* far, and one)
dbIncrementFromRead(ls, id) ==
    {IF l.id = id
     THEN [l EXCEPT !.access_count = Cardinality({a \in accessLogs : a.link_id = id}) + 1]
     ELSE l : l \in ls}
dbIncrementAccessCount(ls, id) ==
    {IF l.id = id THEN [l EXCEPT !.access_count = @ + 1] ELSE l : l \in ls}

\* DELETE FROM links WHERE id = ?, with ON DELETE CASCADE on the child tables
dbDeleteLink(ls, id) == {l \in ls : l.id # id}
cascade(rows, ls) == {r \in rows : \E l \in ls : l.id = r.link_id}

\* DELETE FROM links WHERE expires_at IS NOT NULL AND expires_at <= datetime('now')
\* (the rows of the day of t go too, whatever their hour)
deleteExpiringToday(ls, t) ==
    {l \in ls : ~(l.expires_at # NULL /\ formatDateToYMD(l.expires_at) <= formatDateToYMD(t))}
deleteExpiredLinks(ls, t) == {l \in ls : ~SqlExpired(l, t)}

(***************************************************************************)
(* GET /:shortCode -- index.ts route filter and handleRedirect.            *)
(***************************************************************************)
LookupCodes ==
    { Rep("x", slugLength),             \* a code the generator hands out
      <<"m","y","l","k">>,              \* a custom slug
      Rep("z", 8),                      \* an 8-character code nobody stores
      <<"a","b">> }                     \* too short for the route

\* app.get("/:shortCode"): what the route hands to handleRedirect
routeAccepts(shortCode) ==
    ~ \/ startsWith(shortCode, <<"a","p","i">>)
      \/ startsWith(shortCode, <<"h","e","a","l","t","h">>)
      \/ startsWith(shortCode, <<"s","t","a","t","i","c">>)
      \/ includes(shortCode, <<".">>)
      \/ Len(shortCode) < 3

isValidShortCodeFormat(shortCode) ==
    /\ Len(shortCode) >= 3
    /\ Len(shortCode) <= 16
    /\ AllIn(shortCode, BASE62_CHARS)
    /\ ~AllIn(shortCode, Digits)

\* isPrivateIP: getGeoLocation answers null for these without a fetch
isPrivateIP(ip) == ip = "127.0.0.1"

\* A request is taken up by the first free slot, if the clients have fewer
\* than run.parallel requests in flight.
Free(p) ==
    /\ pc[p] = "idle"
    /\ \A q \in Procs : q < p => pc[q] # "idle"
    /\ Cardinality({q \in Procs : pc[q] # "idle"}) < run.parallel

Respond(p, r) ==
    /\ pc' = [pc EXCEPT ![p] = "idle"]
    /\ loc' = [loc EXCEPT ![p] = NoLoc]
    /\ resp' = r

Goto(p, label, l) ==
    /\ pc' = [pc EXCEPT ![p] = label]
    /\ loc' = [loc EXCEPT ![p] = l]
    /\ UNCHANGED resp

NotFoundPage == [NoResp EXCEPT !.status = 404, !.body = "not-found"]

\* The request arrives; the route filter and isValidShortCodeFormat answer 404
\* without a lookup, every other code goes to linkService.getLink.
RedirectStart(p) ==
    /\ UNCHANGED call
    /\ Free(p)
    /\ run.visits > 0
    /\ run' = [run EXCEPT !.visits = @ - 1]
    /\ \E code \in LookupCodes, visitor \in run.visitors :
         IF routeAccepts(code) /\ isValidShortCodeFormat(code)
         THEN Goto(p, "getLink", [NoLoc EXCEPT !.kind = "redirect", !.code = code,
                                              !.ip = visitor.ip,
                                              !.device = visitor.device])
         ELSE Respond(p, NotFoundPage)
    /\ UNCHANGED << now, store, tasks, taskFailed, history >>

\* LinkService.getLink up to its first return: the row read, then isExpired.
\* storeFails: db.getLinkByShortCode threw and getLink's catch answered.
getLinkOutcome(rows, t, storeFails) ==
    IF storeFails THEN "InternalError"
    ELSE IF rows = {} THEN "NotFound"
    ELSE IF \E l \in rows : isExpired(l, t) THEN "Expired"
    ELSE "Active"

RedirectGetLinkPurging(p) ==
    /\ UNCHANGED call
    /\ pc[p] = "getLink"
    /\ \E storeFails \in StoreFailures :
      /\ Fail(storeFails)
      /\ LET rows == getLinkByShortCode(links, loc[p].code)
             outcome == getLinkOutcome(rows, now, storeFails)
         IN  /\ CASE outcome = "Active" ->
                       \E l \in rows :
                         Goto(p, IF enableAnalytics THEN "increment" ELSE "respond",
                              [loc[p] EXCEPT !.outcome = outcome, !.id = l.id,
                                             !.url = l.original_url,
                                             !.expires_at = l.expires_at])
                  [] outcome = "Expired" ->
                       Goto(p, "getLinkRaw", [loc[p] EXCEPT !.outcome = outcome])
                  [] OTHER ->
                       Respond(p, [NotFoundPage EXCEPT !.body = outcome])
             /\ everExpired' = IF outcome = "Expired"
                               THEN everExpired \cup {loc[p].code} ELSE everExpired
             /\ expiredSince' = IF outcome = "Expired"
                                THEN expiredSince \cup {loc[p].code} ELSE expiredSince
             /\ links' = IF outcome = "Expired" THEN links \ rows ELSE links
    /\ UNCHANGED << now, nextLinkId, accessLogs, nextLogId, dailyStats, tasks, taskFailed >>
RedirectGetLink(p) ==
    /\ UNCHANGED call
    /\ pc[p] = "getLink"
    /\ \E storeFails \in StoreFailures :
      /\ Fail(storeFails)
      /\ LET rows == getLinkByShortCode(links, loc[p].code)
             outcome == getLinkOutcome(rows, now, storeFails)
         IN  /\ CASE outcome = "Active" ->
                       \E l \in rows :
                         Goto(p, IF enableAnalytics THEN "increment" ELSE "respond",
                              [loc[p] EXCEPT !.outcome = outcome, !.id = l.id,
                                             !.url = l.original_url,
                                             !.expires_at = l.expires_at])
                  [] outcome = "Expired" ->
                       Goto(p, "getLinkRaw", [loc[p] EXCEPT !.outcome = outcome])
                  [] OTHER ->
                       Respond(p, [NotFoundPage EXCEPT !.body = outcome])
             /\ everExpired' = IF outcome = "Expired"
                               THEN everExpired \cup {loc[p].code} ELSE everExpired
             /\ expiredSince' = IF outcome = "Expired"
                                THEN expiredSince \cup {loc[p].code} ELSE expiredSince
    /\ UNCHANGED << now, store, tasks, taskFailed >>

\* LinkService.getLinkByShortCodeRaw: the row, whatever its expires_at; a
\* store error answers like a missing row.
getLinkByShortCodeRaw(ls, shortCode, storeFails) ==
    IF storeFails THEN {} ELSE getLinkByShortCode(ls, shortCode)

\* createExpiredPage(shortCode, expiresAt, baseUrl) with status 410
createExpiredPage(l) ==
    [NoResp EXCEPT !.status = 410, !.body = "expired", !.expires_at = l.expires_at]

\* handleRedirect on "已过期": the row is read again without the expiry check;
\* 410 if it is there with an expires_at, else 404.
RedirectGetLinkRawLazyDelete(p) ==
    /\ UNCHANGED call
    /\ pc[p] = "getLinkRaw"
    /\ \E storeFails \in StoreFailures :
      /\ Fail(storeFails)
      /\ LET rows == getLinkByShortCodeRaw(links, loc[p].code, storeFails)
         IN  /\ IF \E l \in rows : l.expires_at # NULL
                THEN \E l \in rows : Respond(p, createExpiredPage(l))
                ELSE Respond(p, NotFoundPage)
             /\ links' = links \ rows
    /\ UNCHANGED << now, nextLinkId, accessLogs, nextLogId, dailyStats,
                    tasks, taskFailed, history >>

RedirectGetLinkRaw(p) ==
    /\ UNCHANGED call
    /\ pc[p] = "getLinkRaw"
    /\ \E storeFails \in StoreFailures :
      /\ Fail(storeFails)
      /\ LET rows == getLinkByShortCodeRaw(links, loc[p].code, storeFails)
         IN  IF \E l \in rows : l.expires_at # NULL
             THEN \E l \in rows : Respond(p, createExpiredPage(l))
             ELSE Respond(p, NotFoundPage)
    /\ UNCHANGED << now, store, tasks, taskFailed, history >>

\* LinkService.incrementAccessCount: a failed UPDATE is logged and swallowed,
\* so getLink still answers success.
afterIncrementRethrow(storeFails) == IF storeFails THEN "InternalError" ELSE "Active"
afterIncrement(storeFails) == "Active"

RedirectIncrement(p) ==
    /\ UNCHANGED call
    /\ pc[p] = "increment"
    /\ \E storeFails \in StoreFailures :
      /\ Fail(storeFails)
      /\ /\ links' = IF storeFails THEN links
                     ELSE dbIncrementAccessCount(links, loc[p].id)
         /\ IF afterIncrement(storeFails) = "Active"
            THEN Goto(p, "geo",
                      [loc[p] EXCEPT !.failed = IF storeFails THEN @ \cup {"increment"} ELSE @])
            ELSE Respond(p, [NotFoundPage EXCEPT !.body = "InternalError"])
    /\ UNCHANGED << now, nextLinkId, accessLogs, nextLogId, dailyStats,
                    tasks, taskFailed, history >>

\* recordVisit: await getGeoLocation(ip), failures swallowed.
RedirectGeo(p) ==
    /\ UNCHANGED call
    /\ pc[p] = "geo"
    /\ \E fetchFails \in BOOLEAN :
         /\ isPrivateIP(loc[p].ip) => ~fetchFails
         /\ Goto(p, "createAccessLog",
                 [loc[p] EXCEPT !.failed = IF fetchFails THEN @ \cup {"geo"} ELSE @])
    /\ UNCHANGED << now, store, tasks, taskFailed, run, history >>

\* INSERT INTO access_logs ...; link_id REFERENCES links(id)
createAccessLogOk(ls, linkId, storeFails) ==
    ~storeFails /\ \E l \in ls : l.id = linkId

\* recordVisit from db.createAccessLog on: the row is inserted, the rollup is
\* started without being awaited, and recordVisit returns; a failed insert
\* rejects recordVisit, which handleRedirect catches.
RedirectCreateAccessLog(p) ==
    /\ UNCHANGED call
    /\ pc[p] = "createAccessLog"
    /\ \E storeFails \in StoreFailures :
      /\ Fail(storeFails)
      /\ IF createAccessLogOk(links, loc[p].id, storeFails)
         THEN /\ accessLogs' = accessLogs \cup
                    {[ id |-> nextLogId, link_id |-> loc[p].id,
                       short_code |-> loc[p].code, accessed_at |-> now,
                       ip_address |-> loc[p].ip, device_type |-> loc[p].device ]}
              /\ nextLogId' = nextLogId + 1
              /\ tasks' = tasks \cup
                    {[ log_id |-> nextLogId, link_id |-> loc[p].id, today |-> formatDateToYMD(now),
                       stage |-> "getOrCreate", stats |-> NoStats ]}
              /\ Goto(p, "respond", [loc[p] EXCEPT !.log_id = nextLogId])
         ELSE /\ UNCHANGED << accessLogs, nextLogId, tasks >>
              /\ Goto(p, "respond", [loc[p] EXCEPT !.failed = @ \cup {"createAccessLog"}])
    /\ UNCHANGED << now, links, nextLinkId, dailyStats, taskFailed, history >>

\* handleRedirect after the analytics block: headers, status, c.redirect.
\* Reached when getLink, and recordVisit if enabled, have settled.
canRespondAfterRollup(p) ==
    pc[p] = "respond" /\ \A t \in tasks : t.log_id # loc[p].log_id
canRespond(p) == pc[p] = "respond"

redirectResponse(l) ==
    [NoResp EXCEPT !.status = 302, !.body = "redirect", !.url = l.url,
                   !.failed = l.failed]

RedirectRespond(p) ==
    /\ UNCHANGED call
    /\ canRespond(p)
    /\ Respond(p, redirectResponse(loc[p]))
    /\ UNCHANGED << now, store, tasks, taskFailed, run, history >>

(***************************************************************************)
(* AnalyticsService.updateDailyStatsAsync: the promise recordVisit starts  *)
(* and leaves to its .catch.                                               *)
(***************************************************************************)
statsRows(ds, t) == {d \in ds : d.link_id = t.link_id /\ d.date = t.today}

TaskRejected(t) ==
    /\ tasks' = tasks \ {t}
    /\ taskFailed' = taskFailed \cup {t.log_id}

TaskGoto(t, stage) ==
    /\ tasks' = (tasks \ {t}) \cup {[t EXCEPT !.stage = stage]}
    /\ UNCHANGED taskFailed

\* getOrCreateDailyStats: SELECT ... WHERE link_id = ? AND date = ?
RollupSelect(t) ==
    /\ UNCHANGED call
    /\ t.stage = "getOrCreate"
    /\ \E storeFails \in StoreFailures :
      /\ Fail(storeFails)
      /\ IF storeFails THEN TaskRejected(t)
         ELSE IF statsRows(dailyStats, t) # {} THEN TaskGoto(t, "getAccessLogs")
         ELSE TaskGoto(t, "insert")
    /\ UNCHANGED << now, store, pc, loc, resp, history >>

\* getOrCreateDailyStats: INSERT INTO daily_stats; UNIQUE(link_id, date) and
\* the foreign key reject it.
insertDailyStatsUnconstrained(ds, ls, t, storeFails) ==
    ~storeFails /\ getLinkById(ls, t.link_id) # {}
insertDailyStatsOk(ds, ls, t, storeFails) ==
    /\ ~storeFails
    /\ statsRows(ds, t) = {}
    /\ getLinkById(ls, t.link_id) # {}

RollupInsert(t) ==
    /\ UNCHANGED call
    /\ t.stage = "insert"
    /\ \E storeFails \in StoreFailures :
      /\ Fail(storeFails)
      /\ IF insertDailyStatsOk(dailyStats, links, t, storeFails)
         THEN /\ dailyStats' = dailyStats \cup
                    {[ link_id |-> t.link_id, date |-> t.today, created_at |-> now,
                       stats |-> NoStats ]}
              /\ TaskGoto(t, "getAccessLogs")
         ELSE TaskRejected(t) /\ UNCHANGED dailyStats
    /\ UNCHANGED << now, links, nextLinkId, accessLogs, nextLogId,
                    pc, loc, resp, history >>

\* getAccessLogs(link.id, undefined, 1000, 0): ORDER BY accessed_at DESC LIMIT n.
\* Of too many rows the oldest go: those before the instant `cut` all of
\* them, and of those at `cut` as many as are still too many, whichever.
latest(rows, n) ==
    IF Cardinality(rows) <= n THEN {rows}
    ELSE LET excess == Cardinality(rows) - n
             before(t) == {r \in rows : r.accessed_at < t}
             at(t) == {r \in rows : r.accessed_at = t}
             cut == CHOOSE t \in {r.accessed_at : r \in rows} :
                       /\ Cardinality(before(t)) <= excess
                       /\ Cardinality(before(t)) + Cardinality(at(t)) >= excess
             need == excess - Cardinality(before(cut))
             gone == IF need = 0 THEN {{}}
                     ELSE IF need = Cardinality(at(cut)) THEN {at(cut)}
                     ELSE IF need = 1 THEN {{r} : r \in at(cut)}
                     ELSE {T \in SUBSET at(cut) : Cardinality(T) = need}
         IN  {rows \ (before(cut) \cup T) : T \in gone}

\* the counts updateDailyStatsAsync derives from the rows of today
computeStats(logs, today) ==
    LET todayVisits == {l \in logs : formatDateToYMD(l.accessed_at) = today}
    IN  [ total_visits |-> Cardinality(todayVisits),
          unique_visitors |-> Cardinality({l.ip_address : l \in todayVisits}),
          mobile_visits |-> Cardinality({l \in todayVisits : l.device_type = "mobile"}),
          desktop_visits |-> Cardinality({l \in todayVisits : l.device_type = "desktop"}),
          tablet_visits |-> Cardinality({l \in todayVisits : l.device_type = "tablet"}),
          bot_visits |-> Cardinality({l \in todayVisits : l.device_type = "bot"}) ]

RollupGetAccessLogs(t) ==
    /\ UNCHANGED call
    /\ t.stage = "getAccessLogs"
    /\ \E storeFails \in StoreFailures :
      /\ Fail(storeFails)
      /\ IF storeFails THEN TaskRejected(t)
         ELSE \E logs \in latest({l \in accessLogs : l.link_id = t.link_id}, AccessLogLimit) :
                /\ tasks' = (tasks \ {t}) \cup
                      {[t EXCEPT !.stage = "update", !.stats = computeStats(logs, t.today)]}
                /\ UNCHANGED taskFailed
    /\ UNCHANGED << now, store, pc, loc, resp, history >>

\* updateDailyStats: UPDATE daily_stats SET ... WHERE link_id = ? AND date = ?
\* RETURNING *; no row returned rejects the promise.
RollupUpdate(t) ==
    /\ UNCHANGED call
    /\ t.stage = "update"
    /\ \E storeFails \in StoreFailures :
      /\ Fail(storeFails)
      /\ IF storeFails \/ statsRows(dailyStats, t) = {}
         THEN TaskRejected(t) /\ UNCHANGED dailyStats
         ELSE /\ dailyStats' = (dailyStats \ statsRows(dailyStats, t)) \cup
                    {[d EXCEPT !.stats = t.stats] : d \in statsRows(dailyStats, t)}
              /\ tasks' = tasks \ {t}
              /\ UNCHANGED taskFailed
    /\ UNCHANGED << now, links, nextLinkId, accessLogs, nextLogId,
                    pc, loc, resp, history >>

Rollup(t) ==
    \/ RollupSelect(t)
    \/ RollupInsert(t)
    \/ RollupGetAccessLogs(t)
    \/ RollupUpdate(t)

(***************************************************************************)
(* LinkService.createLink (POST /api/links).                               *)
(***************************************************************************)
\* the URLs of the request bodies
ExampleCom == <<"e","x","a","m","p","l","e",".","c","o","m">>
HttpsExampleCom == HttpsPrefix \o ExampleCom \o <<"/">>
HttpsOtherOrgA == HttpsPrefix \o <<"o","t","h","e","r",".","o","r","g","/","a","/">>
Localhost == <<"l","o","c","a","l","h","o","s","t">>

NoRequest == [url |-> NoUrl, customSlug |-> NoSlug, expiresAt |-> NULL, expireDays |-> 0]

\* the request bodies tried; expiresAt NULL and expireDays 0 stand for absent
CreateRequests ==
    { [NoRequest EXCEPT !.url = ExampleCom],
      [NoRequest EXCEPT !.url = HttpsExampleCom, !.expiresAt = 0],
      [NoRequest EXCEPT !.url = HttpsExampleCom, !.expiresAt = 0, !.expireDays = 1],
      [NoRequest EXCEPT !.url = HttpsExampleCom, !.customSlug = <<"m","y","l","k">>,
                        !.expiresAt = 0],
      [NoRequest EXCEPT !.url = ExampleCom, !.customSlug = <<"a","d","m","i","n","1">>],
      [NoRequest EXCEPT !.url = Localhost] }

CreateResp(status, body, l) ==
    [NoResp EXCEPT !.status = status, !.body = body, !.code = l.code, !.url = l.url]

\* Step 1: validateUrl; an invalid URL is answered at once.
CreateStart(p) ==
    /\ UNCHANGED call
    /\ Free(p)
    /\ run.creates > 0
    /\ run' = [run EXCEPT !.creates = @ - 1]
    /\ \E request \in CreateRequests :
         LET urlValidation == validateUrl(request.url)
             l == [NoLoc EXCEPT !.kind = "create", !.url = urlValidation.normalizedUrl,
                                !.custom = request.customSlug,
                                !.expiresAt = request.expiresAt,
                                !.expireDays = request.expireDays]
         IN  IF urlValidation.isValid
             THEN Goto(p, "findExistingLink", l)
             ELSE Respond(p, CreateResp(400, "invalid-url", l))
    /\ UNCHANGED << now, store, tasks, taskFailed, history >>

\* findExistingLink swallows a store error and answers null.
findExistingLink(ls, url, storeFails) ==
    IF storeFails THEN {} ELSE getLinkByUrl(ls, url)

\* Step 2 and the synchronous start of step 3: reuse the link found for the
\* URL if no custom slug was asked for and it has not expired; otherwise
\* validate the custom slug or set up the generator.
CreateFindExisting(p) ==
    /\ UNCHANGED call
    /\ pc[p] = "findExistingLink"
    /\ \E storeFails \in StoreFailures :
      /\ Fail(storeFails)
      /\ LET found == findExistingLink(links, loc[p].url, storeFails)
             slugValidation == validateCustomSlug(loc[p].custom, customSlugConfig)
         IN  \/ \E existingLink \in found :
                  /\ loc[p].custom = NoSlug
                  /\ ~isExpired(existingLink, now)
                  /\ Respond(p, CreateResp(201, "reused",
                                           [loc[p] EXCEPT !.code = existingLink.short_code]))
             \/ /\ \/ found = {}
                   \/ loc[p].custom # NoSlug
                   \/ \E existingLink \in found : isExpired(existingLink, now)
                /\ IF loc[p].custom # NoSlug /\ enableCustomSlug
                   THEN IF slugValidation.isValid
                        THEN Goto(p, "shortCodeExists",
                                  [loc[p] EXCEPT !.code = slugValidation.slug])
                        ELSE Respond(p, CreateResp(400, "invalid-custom-slug", loc[p]))
                   ELSE Goto(p, "generateSlug",
                             [loc[p] EXCEPT !.attempts = 0, !.length = slugLength])
    /\ UNCHANGED << now, store, tasks, taskFailed, history >>

\* LinkService.shortCodeExists: a store error answers true.
shortCodeExists(ls, shortCode, storeFails) ==
    storeFails \/ getLinkByShortCode(ls, shortCode) # {}

\* The custom slug is checked against the table.
CreateCheckCustom(p) ==
    /\ UNCHANGED call
    /\ pc[p] = "shortCodeExists"
    /\ \E storeFails \in StoreFailures :
      /\ Fail(storeFails)
      /\ IF shortCodeExists(links, loc[p].code, storeFails)
         THEN Respond(p, CreateResp(409, "conflict", loc[p]))
         ELSE Goto(p, "insert", loc[p])
    /\ UNCHANGED << now, store, tasks, taskFailed, history >>

\* generateSlug as createLink runs it, one turn of its loop per step (the
\* existsChecker awaits the database).
CreateGenerate(p) ==
    /\ UNCHANGED call
    /\ pc[p] = "generateSlug"
    /\ \E slug \in Candidates(loc[p].length), storeFails \in StoreFailures :
      /\ Fail(storeFails)
      /\ LET attempts == loc[p].attempts + 1
             finalConfig == [Merge(DEFAULT_CONFIG, slugConfig)
                                EXCEPT !.length = loc[p].length]
             verdict == slugVerdict(slug, finalConfig,
                                    shortCodeExists(links, slug, storeFails))
             l == [loc[p] EXCEPT !.attempts = attempts,
                                 !.length = IF verdict = "collision"
                                            THEN nextLength(attempts, finalConfig)
                                            ELSE @]
         IN  /\ verdict \in {"format", "unsafe"} => ~storeFails
             /\ IF verdict = "accepted"
                THEN Goto(p, "insert", [l EXCEPT !.code = slug])
                ELSE IF attempts < finalConfig.maxRetries
                     THEN Goto(p, "generateSlug", l)
                     ELSE Respond(p, CreateResp(500, "generation-failed", l))
    /\ UNCHANGED << now, store, tasks, taskFailed, history >>

\* Step 4: explicit expiresAt, else expireDays from now, else the default.
computeExpiresAtDaysFirst(enabled, expiresAt, expireDays, t) ==
    IF ~enabled THEN NULL
    ELSE IF expireDays # 0 THEN t + expireDays * TicksPerDay
    ELSE IF expiresAt # NULL THEN expiresAt
    ELSE t + defaultExpireDays * TicksPerDay
computeExpiresAt(enabled, expiresAt, expireDays, t) ==
    IF ~enabled THEN NULL
    ELSE IF expiresAt # NULL THEN expiresAt
    ELSE IF expireDays # 0 THEN t + expireDays * TicksPerDay
    ELSE t + defaultExpireDays * TicksPerDay

\* INSERT INTO links ...; short_code is UNIQUE
dbCreateLinkUnconstrained(ls, shortCode, storeFails) == ~storeFails
dbCreateLinkOk(ls, shortCode, storeFails) ==
    ~storeFails /\ getLinkByShortCode(ls, shortCode) = {}

dbCreateLinkReplacingUrl(ls, row) ==
    {l \in ls : l.original_url # row.original_url} \cup {row}
dbCreateLink(ls, row) == ls \cup {row}

\* (an insert that writes its row and then fails all the same)
CreateInsertTorn(p) ==
    /\ UNCHANGED call
    /\ pc[p] = "insert"
    /\ \E storeFails \in StoreFailures :
      /\ Fail(storeFails)
      /\ IF getLinkByShortCode(links, loc[p].code) = {}
         THEN /\ links' = dbCreateLink(links,
                    [ id |-> nextLinkId, original_url |-> loc[p].url,
                      short_code |-> loc[p].code, created_at |-> now,
                      access_count |-> 0,
                      expires_at |-> computeExpiresAt(enableExpiration, loc[p].expiresAt,
                                                      loc[p].expireDays, now) ])
              /\ nextLinkId' = nextLinkId + 1
              /\ expiredSince' = expiredSince \ {loc[p].code}
              /\ IF storeFails
                 THEN Respond(p, CreateResp(500, "InternalError", loc[p]))
                 ELSE Respond(p, CreateResp(201, "created", loc[p]))
         ELSE /\ UNCHANGED << links, nextLinkId, expiredSince >>
              /\ Respond(p, CreateResp(500, "InternalError", loc[p]))
    /\ UNCHANGED << now, accessLogs, nextLogId, dailyStats, tasks, taskFailed, everExpired >>

\* Steps 4 to 6: the row is inserted; a rejected insert ends in the catch.
CreateInsert(p) ==
    /\ UNCHANGED call
    /\ pc[p] = "insert"
    /\ \E storeFails \in StoreFailures :
      /\ Fail(storeFails)
      /\ IF dbCreateLinkOk(links, loc[p].code, storeFails)
         THEN /\ links' = dbCreateLink(links,
                    [ id |-> nextLinkId, original_url |-> loc[p].url,
                      short_code |-> loc[p].code, created_at |-> now,
                      access_count |-> 0,
                      expires_at |-> computeExpiresAt(enableExpiration, loc[p].expiresAt,
                                                      loc[p].expireDays, now) ])
              /\ nextLinkId' = nextLinkId + 1
              /\ expiredSince' = expiredSince \ {loc[p].code}
              /\ Respond(p, CreateResp(201, "created", loc[p]))
         ELSE /\ UNCHANGED << links, nextLinkId, expiredSince >>
              /\ Respond(p, CreateResp(500, "InternalError", loc[p]))
    /\ UNCHANGED << now, accessLogs, nextLogId, dailyStats, tasks, taskFailed, everExpired >>

CreateLink(p) ==
    \/ CreateStart(p)
    \/ CreateFindExisting(p)
    \/ CreateCheckCustom(p)
    \/ CreateGenerate(p)
    \/ CreateInsert(p)

(***************************************************************************)
(* LinkService.updateLink (PUT /api/links/:id passes the request body on   *)
(* as it is), deleteLink and cleanupExpiredLinks.                          *)
(***************************************************************************)
\* the ids asked for: those of the rows, and one that no row has
LinkIds == {l.id : l \in links} \cup {nextLinkId}

\* the request bodies tried: expiresAt null, expiresAt later, a new URL,
\* none of the two fields (what the toggle route sends: isActive alone), and
\* a body that names every column, accessCount: 0 included
UpdateRequests ==
    { [originalUrl |-> NoUrl, setExpiresAt |-> FALSE, expiresAt |-> NULL,
       accessCount |-> NULL],
      [originalUrl |-> NoUrl, setExpiresAt |-> TRUE, expiresAt |-> NULL,
       accessCount |-> NULL],
      [originalUrl |-> NoUrl, setExpiresAt |-> TRUE, expiresAt |-> MaxTime + 1,
       accessCount |-> NULL],
      [originalUrl |-> HttpsOtherOrgA, setExpiresAt |-> FALSE, expiresAt |-> NULL,
       accessCount |-> NULL],
      [originalUrl |-> HttpsOtherOrgA, setExpiresAt |-> TRUE, expiresAt |-> MaxTime + 1,
       accessCount |-> 0] }

UpdateStart(p) ==
    /\ UNCHANGED call
    /\ Free(p)
    /\ run.edits > 0
    /\ run' = [run EXCEPT !.edits = @ - 1]
    /\ \E id \in LinkIds, request \in UpdateRequests :
         Goto(p, "getLinkById", [NoLoc EXCEPT !.kind = "update", !.id = id,
                                             !.url = request.originalUrl,
                                             !.setExpiresAt = request.setExpiresAt,
                                             !.expiresAt = request.expiresAt,
                                             !.accessCount = request.accessCount])
    /\ UNCHANGED << now, store, tasks, taskFailed, history >>

UpdateResp(status, body, l) ==
    [NoResp EXCEPT !.status = status, !.body = body, !.url = l.url,
                   !.expires_at = l.expiresAt]

\* the row is looked up, then a new URL is validated
UpdateGetLink(p) ==
    /\ UNCHANGED call
    /\ pc[p] = "getLinkById"
    /\ \E storeFails \in StoreFailures :
      /\ Fail(storeFails)
      /\ LET urlValidation == validateUrl(loc[p].url)
         IN  IF storeFails THEN Respond(p, UpdateResp(500, "InternalError", loc[p]))
             ELSE IF getLinkById(links, loc[p].id) = {}
             THEN Respond(p, UpdateResp(404, "not-found", loc[p]))
             ELSE IF loc[p].url # NoUrl /\ ~urlValidation.isValid
             THEN Respond(p, UpdateResp(400, "invalid-url", loc[p]))
             ELSE Goto(p, "updateLink",
                       [loc[p] EXCEPT !.url = IF @ = NoUrl THEN @
                                              ELSE urlValidation.normalizedUrl])
    /\ UNCHANGED << now, store, tasks, taskFailed, history >>

\* LinkService.updateLink's `updates`: the validated URL and expiresAt are
\* copied from the request, nothing else of it is
updatesOfWholeRequest(request) ==
    [ original_url |-> request.url,
      setExpiresAt |-> request.setExpiresAt, expires_at |-> request.expiresAt,
      access_count |-> request.accessCount ]
updates(request) ==
    [ original_url |-> request.url,
      setExpiresAt |-> request.setExpiresAt, expires_at |-> request.expiresAt,
      access_count |-> NULL ]

\* DatabaseService.updateLink: a SET clause for each of original_url,
\* access_count and expires_at that data defines
dbUpdateLink(ls, id, data) ==
    { IF l.id = id
      THEN [l EXCEPT !.original_url = IF data.original_url = NoUrl THEN @
                                      ELSE data.original_url,
                     !.access_count = IF data.access_count = NULL THEN @
                                      ELSE data.access_count,
                     !.expires_at = IF data.setExpiresAt THEN data.expires_at ELSE @]
      ELSE l : l \in ls }

UpdateWrite(p) ==
    /\ UNCHANGED call
    /\ pc[p] = "updateLink"
    /\ \E storeFails \in StoreFailures :
      /\ Fail(storeFails)
      /\ IF storeFails \/ getLinkById(links, loc[p].id) = {}
         THEN /\ UNCHANGED << links, expiredSince >>
              /\ Respond(p, UpdateResp(500, "InternalError", loc[p]))
         ELSE /\ links' = dbUpdateLink(links, loc[p].id, updates(loc[p]))
              /\ expiredSince' =
                    IF loc[p].setExpiresAt
                    THEN expiredSince \ {l.short_code : l \in getLinkById(links, loc[p].id)}
                    ELSE expiredSince
              /\ Respond(p, UpdateResp(200, "updated", loc[p]))
    /\ UNCHANGED << now, nextLinkId, accessLogs, nextLogId, dailyStats,
                    tasks, taskFailed, everExpired >>

\* LinkService.deleteLink: one DELETE, false on a store error
DeleteLink(p) ==
    /\ UNCHANGED call
    /\ Free(p)
    /\ run.edits > 0
    /\ \E id \in LinkIds, storeFails \in StoreFailures :
      /\ run' = [run EXCEPT !.edits = @ - 1, !.failures = IF storeFails THEN @ - 1 ELSE @,
                           !.failed = IF storeFails THEN @ + 1 ELSE @]
      /\ LET remaining == IF storeFails THEN links ELSE dbDeleteLink(links, id)
         IN  /\ links' = remaining
             /\ accessLogs' = cascade(accessLogs, remaining)
             /\ dailyStats' = cascade(dailyStats, remaining)
             /\ resp' = [NoResp EXCEPT !.status = IF remaining # links THEN 200 ELSE 404,
                                       !.body = "deleted"]
    /\ UNCHANGED << now, nextLinkId, nextLogId, pc, loc, tasks, taskFailed, history >>

\* LinkService.cleanupExpiredLinks: one DELETE, 0 on a store error
CleanupExpiredLinks(p) ==
    /\ UNCHANGED call
    /\ Free(p)
    /\ run.edits > 0
    /\ \E storeFails \in StoreFailures :
      /\ run' = [run EXCEPT !.edits = @ - 1, !.failures = IF storeFails THEN @ - 1 ELSE @,
                           !.failed = IF storeFails THEN @ + 1 ELSE @]
      /\ LET remaining == IF storeFails THEN links ELSE deleteExpiredLinks(links, now)
         IN  /\ links' = remaining
             /\ accessLogs' = cascade(accessLogs, remaining)
             /\ dailyStats' = cascade(dailyStats, remaining)
             /\ resp' = [NoResp EXCEPT !.status = 200, !.body = "cleaned"]
    /\ UNCHANGED << now, nextLinkId, nextLogId, pc, loc, tasks, taskFailed, history >>

(***************************************************************************)
(* AnalyticsService.performCleanup: rows past their retention go, then     *)
(* the access logs of yesterday are aggregated into daily_stats.           *)
(***************************************************************************)
accessLogRetention == 365     \* analytics_retention_days
dailyStatsRetention == 1095   \* daily_stats_retention_days

\* DELETE FROM access_logs WHERE accessed_at < datetime('now', '-N days')
cleanupAccessLogs(rows, t, retentionDays) ==
    {r \in rows : ~(r.accessed_at < t - retentionDays * TicksPerDay)}

\* DELETE FROM daily_stats WHERE created_at < datetime('now', '-N days')
cleanupDailyStats(rows, t, retentionDays) ==
    {r \in rows : ~(r.created_at < t - retentionDays * TicksPerDay)}

\* INSERT OR REPLACE INTO daily_stats (...) SELECT ... FROM access_logs
\* WHERE DATE(accessed_at) = ? GROUP BY link_id, short_code: one row for each
\* link with logs of the date, in the place of the row it may have
aggregateAccessLogs(ds, logs, date, t) ==
    LET ofDate == {l \in logs : formatDateToYMD(l.accessed_at) = date}
        fresh == { [ link_id |-> id, date |-> date, created_at |-> t,
                     stats |-> computeStats({l \in ofDate : l.link_id = id}, date) ] :
                   id \in {l.link_id : l \in ofDate} }
    IN  {d \in ds : ~ \E f \in fresh : f.link_id = d.link_id /\ f.date = d.date}
        \cup fresh

\* the two configs are read and the two DELETEs run; yesterday is taken from
\* the clock before aggregateAccessLogs is sent
PerformCleanupStart(p) ==
    /\ UNCHANGED call
    /\ Free(p)
    /\ run.edits > 0
    /\ \E storeFails \in StoreFailures :
      /\ run' = [run EXCEPT !.edits = @ - 1, !.failures = IF storeFails THEN @ - 1 ELSE @,
                           !.failed = IF storeFails THEN @ + 1 ELSE @]
      /\ IF storeFails
         THEN /\ UNCHANGED << accessLogs, dailyStats >>
              /\ Respond(p, [NoResp EXCEPT !.status = 500, !.body = "InternalError"])
         ELSE /\ accessLogs' = cleanupAccessLogs(accessLogs, now, accessLogRetention)
              /\ dailyStats' = cleanupDailyStats(dailyStats, now, dailyStatsRetention)
              /\ Goto(p, "aggregate",
                      [NoLoc EXCEPT !.kind = "cleanup",
                                    !.date = formatDateToYMD(now - TicksPerDay)])
    /\ UNCHANGED << now, links, nextLinkId, nextLogId, tasks, taskFailed, history >>

PerformCleanupAggregate(p) ==
    /\ UNCHANGED call
    /\ pc[p] = "aggregate"
    /\ \E storeFails \in StoreFailures :
      /\ Fail(storeFails)
      /\ IF storeFails
         THEN /\ UNCHANGED dailyStats
              /\ Respond(p, [NoResp EXCEPT !.status = 500, !.body = "InternalError"])
         ELSE /\ dailyStats' = aggregateAccessLogs(dailyStats, accessLogs, loc[p].date, now)
              /\ Respond(p, [NoResp EXCEPT !.status = 200, !.body = "aggregated"])
    /\ UNCHANGED << now, links, nextLinkId, accessLogs, nextLogId,
                    tasks, taskFailed, history >>

PerformCleanup(p) ==
    \/ PerformCleanupStart(p)
    \/ PerformCleanupAggregate(p)

(***************************************************************************)
(* POST /links/code/:shortCode/toggle and GET /links/code/:shortCode.      *)
(* A row of links has the columns of migrations/0001 and no other, so the  *)
(* is_active of a row that SELECT * has returned is undefined.             *)
(***************************************************************************)
is_active(l) == IF "is_active" \in DOMAIN l THEN l.is_active ELSE "undefined"

\* !linkData.is_active
newStatus(linkData) == IF is_active(linkData) = "true" THEN "false" ELSE "true"

ToggleResp(status, body, l) ==
    [NoResp EXCEPT !.status = status, !.body = body, !.code = l.code,
                   !.isActive = l.isActive]

ToggleStart(p) ==
    /\ UNCHANGED call
    /\ Free(p)
    /\ run.toggles > 0
    /\ run' = [run EXCEPT !.toggles = @ - 1]
    /\ \E code \in LookupCodes :
         LET l == [NoLoc EXCEPT !.kind = "toggle", !.code = code]
         IN  IF Len(code) < 3 THEN Respond(p, ToggleResp(400, "invalid-code", l))
             ELSE Goto(p, "toggleGetLink", l)
    /\ UNCHANGED << now, store, tasks, taskFailed, history >>

\* the row is read and the new status is the negation of its is_active
ToggleGetLink(p) ==
    /\ UNCHANGED call
    /\ pc[p] = "toggleGetLink"
    /\ \E storeFails \in StoreFailures :
      /\ Fail(storeFails)
      /\ IF storeFails THEN Respond(p, ToggleResp(500, "InternalError", loc[p]))
         ELSE IF getLinkByShortCode(links, loc[p].code) = {}
         THEN Respond(p, ToggleResp(404, "not-found", loc[p]))
         ELSE \E linkData \in getLinkByShortCode(links, loc[p].code) :
                Goto(p, "toggleUpdateLink",
                     [loc[p] EXCEPT !.id = linkData.id,
                                    !.isActive = newStatus(linkData)])
    /\ UNCHANGED << now, store, tasks, taskFailed, history >>

\* linkService.updateLink(linkData.id, {isActive: newStatus}): the request
\* has neither originalUrl nor expiresAt
ToggleUpdateLink(p) ==
    /\ UNCHANGED call
    /\ pc[p] = "toggleUpdateLink"
    /\ \E storeFails \in StoreFailures :
      /\ Fail(storeFails)
      /\ IF storeFails \/ getLinkById(links, loc[p].id) = {}
         THEN /\ UNCHANGED links
              /\ Respond(p, ToggleResp(500, "InternalError", loc[p]))
         ELSE /\ links' = dbUpdateLink(links, loc[p].id, updates(loc[p]))
              /\ Respond(p, ToggleResp(200, "toggled", loc[p]))
    /\ UNCHANGED << now, nextLinkId, accessLogs, nextLogId, dailyStats,
                    tasks, taskFailed, history >>

ToggleLink(p) ==
    \/ ToggleStart(p)
    \/ ToggleGetLink(p)
    \/ ToggleUpdateLink(p)

\* GET /links/code/:shortCode: one SELECT, isActive: linkData.is_active
GetLinkByCode(p) ==
    /\ UNCHANGED call
    /\ Free(p)
    /\ run.toggles > 0
    /\ \E code \in LookupCodes, storeFails \in StoreFailures :
      /\ run' = [run EXCEPT !.toggles = @ - 1,
                            !.failures = IF storeFails THEN @ - 1 ELSE @,
                            !.failed = IF storeFails THEN @ + 1 ELSE @]
      /\ LET l == [NoLoc EXCEPT !.code = code]
         IN  resp' =
               IF Len(code) < 3 THEN ToggleResp(400, "invalid-code", l)
               ELSE IF storeFails THEN ToggleResp(500, "InternalError", l)
               ELSE IF getLinkByShortCode(links, code) = {}
               THEN ToggleResp(404, "not-found", l)
               ELSE LET linkData == CHOOSE r \in getLinkByShortCode(links, code) : TRUE
                    IN  ToggleResp(200, "link", [l EXCEPT !.isActive = is_active(linkData)])
    /\ UNCHANGED << now, store, pc, loc, tasks, taskFailed, history >>

UpdateLink(p) ==
    \/ UpdateStart(p)
    \/ UpdateGetLink(p)
    \/ UpdateWrite(p)

HandleRedirect(p) ==
    \/ RedirectStart(p)
    \/ RedirectGetLink(p)
    \/ RedirectGetLinkRaw(p)
    \/ RedirectIncrement(p)
    \/ RedirectGeo(p)
    \/ RedirectCreateAccessLog(p)
    \/ RedirectRespond(p)

Next ==
    \/ Tick
    \/ \E p \in Procs : HandleRedirect(p)
    \/ \E p \in Procs : CreateLink(p)
    \/ \E p \in Procs : UpdateLink(p)
    \/ \E p \in Procs : DeleteLink(p)
    \/ \E p \in Procs : CleanupExpiredLinks(p)
    \/ \E p \in Procs : PerformCleanup(p)
    \/ \E p \in Procs : ToggleLink(p)
    \/ \E p \in Procs : GetLinkByCode(p)
    \/ \E t \in tasks : Rollup(t)

Spec == Init /\ [][Next]_vars

(***************************************************************************)
(* The slug generator and the expiry rule on their own: one call of        *)
(* generateSlug, validateCustomSlug, generateSlugSuggestions or of         *)
(* createLink's expiry computation, with inputs drawn from small sets.     *)
(* The database and the requests stay as they are at the start.            *)
(***************************************************************************)
NoConfig == << >>

\* configs handed to generateSlug: none, createLink's, those of the tests,
\* a length below minLength, the greatest length, an excluded character
GeneratorConfigs ==
    { NoConfig, slugConfig,
      [maxRetries |-> 3],
      [length |-> 8, maxRetries |-> 5],
      [maxRetries |-> 0],
      [length |-> 3, maxRetries |-> 2],
      [length |-> 16, maxRetries |-> 2],
      [maxRetries |-> 4, excludeChars |-> {<<"x">>}] }

\* generateTimestampSlug and generateRandomSlug return some string of the
\* asked length over the charset; these stand for them: harmless ones, one
\* of digits only, one with a reserved word, and the two words the route of
\* the redirect sets apart.
Padded(word, len) ==
    IF len >= Len(word) THEN word \o Rep("y", len - Len(word)) ELSE Rep("y", len)

generateRandomSlug(length, charset) ==
    { s \in { Rep("w", length), Rep("x", length), Rep("y", length), Rep("z", length),
              Rep("7", length), Padded(<<"a","d","m","i","n">>, length),
              Padded(<<"s","t","a","t","i","c">>, length),
              Padded(<<"h","e","a","l","t","h">>, length) } :
        \A i \in 1..Len(s) : s[i] \in charset }

\* inputs of validateCustomSlug
CustomSlugs ==
    { NoSlug,
      <<" "," "," ">>,
      <<"m","y","l","k">>,
      <<" "," ","m","y","l","k"," ">>,
      <<"a","b">>,
      Rep("x", 17),
      <<"m","y","!","k">>,
      <<"a","!">>,
      <<"m","y","-","k">>,
      <<"m","y","L","k">>,
      <<"a","d","m","i","n","1","2","3">>,
      <<"1","2","3","4">>,
      <<"h","e","a","l","t","h","y","1">>,
      <<"s","t","a","t","i","c","9","9">>,
      <<"A","p","i","f","o","x">>,
      <<"m","y",".","k">> }

ValidatorConfigs ==
    { NoConfig, customSlugConfig,
      [minLength |-> 2, maxLength |-> 3],
      [excludeChars |-> {<<"l">>}],
      [customChars |-> Lower],
      [customChars |-> BASE62_CHARS \cup {"-"}] }

\* bases handed to generateSlugSuggestions: none, free, too short, with a
\* reserved word ("test" is the base of the repository's own test), digits
\* only, and one and no character short of maxLength
BaseSlugs ==
    { NoSlug,
      <<"m","y","l","k">>,
      <<"a","b">>,
      <<"a","d","m","i","n","1">>,
      <<"t","e","s","t">>,
      <<"1","2","3","4">>,
      Rep("x", 15),
      Rep("x", 16) }

\* numbers handed to numberToBase62: the small ones, those of the tests, the
\* powers of 62 and their neighbours, and the greatest ones below Limb * Limb
Numbers ==
    { Num(0, n) : n \in 0..MaxSmallNumber }
    \cup { Num(0, 3843), Num(0, 3844), Num(0, 123456), Num(0, 238327), Num(0, 238328),
           Num(0, 456789), Num(0, 999999), Num(1, 0), Num(14, 776335), Num(14, 776336),
           Num(916, 132831), Num(916, 132832), Num(56800, 235583), Num(56800, 235584),
           Num(999999, 999998), Num(999999, 999999) }

\* texts handed to normalizeUrl: those of the tests, blanks around, paths
\* ending in two and three slashes, other schemes, texts that are no URL,
\* a query, a fragment, credentials
UrlInputs ==
    { NoUrl,
      <<"e","x","a","m","p","l","e",".","c","o","m">>,
      <<"h","t","t","p","s",":","/","/","E","X","A","M","P","L","E",".","C","O","M">>,
      <<"h","t","t","p","s",":","/","/","e","x","a","m","p","l","e",".","c","o","m","/","p","a","t","h","/">>,
      <<"h","t","t","p","s",":","/","/","e","x","a","m","p","l","e",".","c","o","m","/">>,
      <<"h","t","t","p","s",":","/","/","e","x","a","m","p","l","e",".","c","o","m",":","4","4","3">>,
      <<"h","t","t","p",":","/","/","e","x","a","m","p","l","e",".","c","o","m",":","8","0">>,
      <<" "," ","e","x","a","m","p","l","e",".","c","o","m"," ">>,
      <<"h","t","t","p","s",":","/","/","e","x","a","m","p","l","e",".","c","o","m","/","a","/","/">>,
      <<"h","t","t","p","s",":","/","/","e","x","a","m","p","l","e",".","c","o","m","/","/">>,
      <<"e","x","a","m","p","l","e",".","c","o","m","/","a","/","/","/">>,
      <<"f","t","p",":","/","/","e","x","a","m","p","l","e",".","c","o","m","/","f","i","l","e">>,
      <<"f","t","p",":","/","/","e","x","a","m","p","l","e",".","c","o","m","/","d","i","r","/">>,
      <<"m","a","i","l","t","o",":","u","s","e","r","@","e","x","a","m","p","l","e",".","c","o","m">>,
      <<"n","o","t"," ","a"," ","u","r","l">>,
      <<"n","o","t"," ","a",".","u","r","l">>,
      <<"n","o","d","o","t">>,
      <<"h","t","t","p","s",":","/","/">>,
      <<"H","T","T","P",":","/","/","E","x","a","m","p","l","e",".","c","o","m",":","8","0","8","0","/","X","/">>,
      <<"h","t","t","p","s",":","/","/","e","x","a","m","p","l","e",".","c","o","m","/","a","/","?","q","=","1">>,
      <<"h","t","t","p","s",":","/","/","e","x","a","m","p","l","e",".","c","o","m","/","a","/","#","t","o","p">>,
      <<"l","o","c","a","l","h","o","s","t">>,
      <<"h","t","t","p","s",":","/","/","o","t","h","e","r",".","o","r","g","/","a","/">>,
      <<"h","t","t","p","s",":","/","/","u","s","e","r",":","p","w","@","e","x","a","m","p","l","e",".","c","o","m","/","a","/">> }

\* access_logs tables of one link handed to the rollup: row id of the day
\* before or of today, its address and device going round with its id
logRow(id, t) ==
    [ id |-> id, link_id |-> 1, short_code |-> Rep("x", slugLength), accessed_at |-> t,
      ip_address |-> << "203.0.113.7", "198.51.100.2", "127.0.0.1" >>[(id % 3) + 1],
      device_type |-> << "mobile", "desktop", "tablet", "bot" >>[(id % 4) + 1] ]

LogTable(nBefore, nToday) ==
    { logRow(i, 0) : i \in 1..nBefore }
    \cup { logRow(nBefore + i, TicksPerDay) : i \in 1..nToday }

\* five rows of one day with three addresses, two from phones and three
\* from desktops
FiveVisits ==
    { [logRow(i, TicksPerDay) EXCEPT
          !.device_type = IF i <= 2 THEN "mobile" ELSE "desktop"] : i \in 1..5 }

\* no row, few rows, and one row fewer than, as many as and one row more than
\* the rollup reads; with and without rows of the day before
LogTables ==
    { LogTable(nBefore, nToday) :
        nBefore \in {0, 3},
        nToday \in {0, 1, 5, AccessLogLimit - 1, AccessLogLimit, AccessLogLimit + 1} }
    \cup { FiveVisits }

Calls ==
    { [NoCall EXCEPT !.fn = "generateSlug", !.config = config,
                     !.finalConfig = Merge(DEFAULT_CONFIG, config)] :
        config \in GeneratorConfigs }
    \cup
    { [NoCall EXCEPT !.fn = "validateCustomSlug", !.input = customSlug, !.config = config] :
        customSlug \in CustomSlugs, config \in ValidatorConfigs }
    \cup
    { [NoCall EXCEPT !.fn = "generateSlugSuggestions", !.input = baseSlug,
                     !.count = count, !.stage = "base"] :
        baseSlug \in BaseSlugs, count \in 0..MaxCount }
    \cup
    { [NoCall EXCEPT !.fn = "computeExpiresAt", !.enabled = enabled,
                     !.expiresAt = expiresAt, !.expireDays = expireDays, !.at = t] :
        enabled \in BOOLEAN, expiresAt \in {NULL} \cup 0..MaxTime,
        expireDays \in 0..MaxTime, t \in 0..MaxTime }
    \cup
    { [NoCall EXCEPT !.fn = "base62", !.num = num] : num \in Numbers }
    \cup
    { [NoCall EXCEPT !.fn = "normalizeUrl", !.input = url] : url \in UrlInputs }
    \cup
    { [NoCall EXCEPT !.fn = "updateDailyStatsAsync", !.logs = logs,
                     !.today = formatDateToYMD(TicksPerDay)] : logs \in LogTables }

SlugInit ==
    /\ now = 0
    /\ links = {}
    /\ nextLinkId = 1
    /\ accessLogs = {}
    /\ nextLogId = 1
    /\ dailyStats = {}
    /\ pc = [p \in Procs |-> "idle"]
    /\ loc = [p \in Procs |-> NoLoc]
    /\ resp = NoResp
    /\ tasks = {}
    /\ taskFailed = {}
    /\ run = [creates |-> 0, visits |-> 0, visitors |-> {}, edits |-> 0,
              failures |-> 0, failed |-> 0, ticks |-> 0, parallel |-> 0]
    /\ everExpired = {}
    /\ expiredSince = {}
    /\ call \in Calls

rest == << now, store, pc, loc, resp, tasks, taskFailed, run, history >>

\* (a loop in which a rejected candidate costs no attempt)
GenerateSlugTurnFreeRejection ==
    /\ call.fn = "generateSlug" /\ ~call.done
    /\ call.attempts < call.finalConfig.maxRetries
    /\ \E slug \in generateRandomSlug(call.finalConfig.length, call.finalConfig.customChars),
          exists \in BOOLEAN :
         LET verdict == slugVerdict(slug, call.finalConfig, exists)
             attempts == IF verdict \in {"format", "unsafe"}
                         THEN call.attempts ELSE call.attempts + 1
         IN  call' = [call EXCEPT
                        !.attempts = attempts, !.slug = slug, !.exists = exists,
                        !.verdict = verdict,
                        !.lengthBefore = call.finalConfig.length,
                        !.finalConfig.length = IF verdict = "collision"
                                               THEN nextLength(attempts, call.finalConfig)
                                               ELSE @,
                        !.done = (verdict = "accepted"),
                        !.success = (verdict = "accepted")]
    /\ UNCHANGED rest

\* generateSlug: one turn of the while loop, with the candidate drawn and the
\* answer the existsChecker has for it
GenerateSlugTurn ==
    /\ call.fn = "generateSlug" /\ ~call.done
    /\ call.attempts < call.finalConfig.maxRetries
    /\ \E slug \in generateRandomSlug(call.finalConfig.length, call.finalConfig.customChars),
          exists \in BOOLEAN :
         LET attempts == call.attempts + 1
             verdict == slugVerdict(slug, call.finalConfig, exists)
         IN  call' = [call EXCEPT
                        !.attempts = attempts, !.slug = slug, !.exists = exists,
                        !.verdict = verdict,
                        !.lengthBefore = call.finalConfig.length,
                        !.finalConfig.length = IF verdict = "collision"
                                               THEN nextLength(attempts, call.finalConfig)
                                               ELSE @,
                        !.done = (verdict = "accepted"),
                        !.success = (verdict = "accepted")]
    /\ UNCHANGED rest

\* generateSlug: the loop is left with the budget used up
GenerateSlugExhausted ==
    /\ call.fn = "generateSlug" /\ ~call.done
    /\ ~(call.attempts < call.finalConfig.maxRetries)
    /\ call' = [call EXCEPT !.done = TRUE, !.success = FALSE, !.verdict = "max-retries"]
    /\ UNCHANGED rest

ValidateCustomSlug ==
    /\ call.fn = "validateCustomSlug" /\ ~call.done
    /\ call' = [call EXCEPT !.done = TRUE,
                            !.validation = validateCustomSlug(call.input, call.config)]
    /\ UNCHANGED rest

ComputeExpiresAt ==
    /\ call.fn = "computeExpiresAt" /\ ~call.done
    /\ call' = [call EXCEPT !.done = TRUE,
                            !.result = computeExpiresAt(call.enabled, call.expiresAt,
                                                        call.expireDays, call.at)]
    /\ UNCHANGED rest

\* base62ToNumber(numberToBase62(num)), both with the default charset
Base62Codec ==
    /\ call.fn = "base62" /\ ~call.done
    /\ LET encoded == numberToBase62(call.num, BASE62_STRING)
       IN  call' = [call EXCEPT !.done = TRUE, !.encoded = encoded,
                                !.decoded = base62ToNumber(encoded, BASE62_STRING)]
    /\ UNCHANGED rest

\* normalizeUrl(url) and normalizeUrl of what it returned
NormalizeUrl ==
    /\ call.fn = "normalizeUrl" /\ ~call.done
    /\ call' = [call EXCEPT !.done = TRUE,
                            !.once = normalizeUrl(call.input),
                            !.twice = normalizeUrl(normalizeUrl(call.input))]
    /\ UNCHANGED rest

\* updateDailyStatsAsync on its own, from getAccessLogs on: what it writes
\* into the day's row
UpdateDailyStatsAsync ==
    /\ call.fn = "updateDailyStatsAsync" /\ ~call.done
    /\ \E todayLogs \in latest(call.logs, AccessLogLimit) :
         call' = [call EXCEPT !.done = TRUE,
                              !.stats = computeStats(todayLogs, call.today)]
    /\ UNCHANGED rest

\* generateSlugSuggestions.  A suggestion is kept if it has the format and is safe.
digit(i) == << <<"1","2","3","4","5","6","7","8","9">>[i] >>

keeps(suggestion, finalConfig) ==
    isValidSlugFormat(suggestion, finalConfig) /\ isSafeSlug(suggestion)

\* the for loop: baseSlug + i for i = 1..9, while fewer than count are kept
numberedSuggestions(baseSlug, count, finalConfig) ==
    LET good == {i \in 1..9 : keeps(baseSlug \o digit(i), finalConfig)}
    IN  { baseSlug \o digit(i) :
            i \in {k \in good : Cardinality({j \in good : j < k}) < count} }

SuggestNumbered ==
    /\ call.fn = "generateSlugSuggestions" /\ call.stage = "base"
    /\ IF call.input # NoSlug /\ isValidSlugFormat(call.input, call.finalConfig)
       THEN call' = [call EXCEPT
                       !.stage = "suffix",
                       !.suggestions = numberedSuggestions(call.input, call.count,
                                                           call.finalConfig)]
       ELSE call' = [call EXCEPT !.stage = "random"]
    /\ UNCHANGED rest

\* the first while loop: baseSlug + two random characters
SuggestSuffix ==
    /\ call.fn = "generateSlugSuggestions" /\ call.stage = "suffix"
    /\ IF Cardinality(call.suggestions) < call.count
       THEN \E randomSuffix \in generateRandomSlug(2, call.finalConfig.customChars) :
              LET suggestion == call.input \o randomSuffix
              IN  call' = [call EXCEPT
                             !.slug = suggestion,
                             !.suggestions = IF keeps(suggestion, call.finalConfig)
                                             THEN @ \cup {suggestion} ELSE @]
       ELSE call' = [call EXCEPT !.stage = "random"]
    /\ UNCHANGED rest

\* the last while loop: random slugs that are safe; then the list is returned
SuggestRandom ==
    /\ call.fn = "generateSlugSuggestions" /\ call.stage = "random"
    /\ IF Cardinality(call.suggestions) < call.count
       THEN \E randomSlug \in generateRandomSlug(call.finalConfig.length,
                                                 call.finalConfig.customChars) :
              call' = [call EXCEPT
                         !.slug = randomSlug,
                         !.suggestions = IF isSafeSlug(randomSlug)
                                         THEN @ \cup {randomSlug} ELSE @]
       ELSE call' = [call EXCEPT !.stage = "returned", !.done = TRUE]
    /\ UNCHANGED rest

GenerateSlugSuggestions == SuggestNumbered \/ SuggestSuffix \/ SuggestRandom

GenerateSlug == GenerateSlugTurn \/ GenerateSlugExhausted

SlugNext ==
    \/ GenerateSlug
    \/ ValidateCustomSlug
    \/ GenerateSlugSuggestions
    \/ ComputeExpiresAt
    \/ Base62Codec
    \/ NormalizeUrl
    \/ UpdateDailyStatsAsync

SlugSpec == SlugInit /\ [][SlugNext]_vars

\* A call of generateSlugSuggestions goes on running, and the random draws
\* are fair: a suggestion that can be kept again and again is kept at some
\* time.
SuggestionKept ==
    /\ GenerateSlugSuggestions
    /\ Cardinality(call'.suggestions) > Cardinality(call.suggestions)

FairSlugSpec ==
    SlugSpec /\ WF_vars(GenerateSlugSuggestions) /\ SF_vars(SuggestionKept)

(***************************************************************************)
(* Properties.                                                             *)
(***************************************************************************)
\* what getLink answered, read off the step in which request p leaves it
getLinkAnswer(p) == IF pc'[p] = "idle" THEN resp'.body ELSE loc'[p].outcome

LeavesGetLink(p) == pc[p] = "getLink" /\ pc'[p] # "getLink"

\* C1: a getLink whose store read is answered is classified by the row alone:
\* NotFound iff no row has the code, Expired iff the row has an expires_at
\* earlier than now, Active with the row's URL otherwise (expires_at null
\* included); the only other answer is the internal error of a failed read.
C1_GetLinkClassifies ==
    [][\A p \in Procs :
         LeavesGetLink(p) =>
           LET rows == {l \in links : l.short_code = loc[p].code}
               answer == getLinkAnswer(p)
           IN  /\ answer \in {"NotFound", "Expired", "Active", "InternalError"}
               /\ answer = "InternalError" <=> run'.failed > run.failed
               /\ answer = "NotFound" => rows = {}
               /\ answer = "Expired" =>
                    \E l \in rows : l.expires_at # NULL /\ l.expires_at < now
               /\ answer = "Active" =>
                    \E l \in rows : /\ l.expires_at = NULL \/ l.expires_at >= now
                                    /\ loc'[p].url = l.original_url
                                    /\ pc'[p] # "getLinkRaw"]_vars

\* a code answered Expired earlier in the run is answered Active with expires_at null
C1_Witness ==
    \E p \in Procs : /\ loc[p].outcome = "Active"
                     /\ loc[p].expires_at = NULL
                     /\ loc[p].code \in everExpired

logsOf(l) == {a \in accessLogs : a.link_id = l.id}
counted(l) == {p \in Procs : pc[p] \in {"geo", "createAccessLog"} /\ loc[p].id = l.id}

\* C2: a getLink of an Active link whose UPDATE is not failed adds exactly 1 to
\* the row's access_count and touches no other row; recordVisit's INSERT, if
\* not failed, adds exactly one access_logs row of that link; so while no
\* statement has failed a link's access_count is the number of its
\* access_logs rows plus the redirects between the two statements.
C2_OneCountOneLog ==
    /\ [][\A p \in Procs :
            /\ (pc[p] = "increment" /\ pc'[p] # "increment" /\ run'.failed = run.failed)
                 => links' = {IF l.id = loc[p].id
                              THEN [l EXCEPT !.access_count = l.access_count + 1]
                              ELSE l : l \in links}
            /\ (/\ pc[p] = "createAccessLog" /\ pc'[p] # "createAccessLog"
                /\ run'.failed = run.failed
                /\ \E l \in links : l.id = loc[p].id)
                 => /\ Cardinality(accessLogs') = Cardinality(accessLogs) + 1
                    /\ \A a \in accessLogs' \ accessLogs : a.link_id = loc[p].id
                    /\ accessLogs \subseteq accessLogs']_vars
    /\ [](run.failed = 0 =>
            \A l \in links :
              l.access_count = Cardinality(logsOf(l)) + Cardinality(counted(l)))

\* a link redirected twice: access_count 2 and two access_logs rows
C2_Witness ==
    /\ run.failed = 0
    /\ \A p \in Procs : pc[p] = "idle"
    /\ \E l \in links : l.access_count = 2 /\ Cardinality(logsOf(l)) = 2

AllSideEffects == {"increment", "geo", "createAccessLog"}

\* C3: a redirect that getLink classified Active ends in one way only, the 302
\* to the URL read, whichever of incrementAccessCount, the geo lookup and
\* createAccessLog failed; and it can always take its next step.  The rollup
\* is a task of its own (C5).
C3_SideEffectsNeverFail ==
    /\ [][\A p \in Procs :
            (loc[p].kind = "redirect" /\ loc[p].outcome = "Active" /\ pc'[p] = "idle")
              => /\ resp'.status = 302
                 /\ resp'.url = loc[p].url
                 /\ loc[p].failed \subseteq AllSideEffects]_vars
    /\ [](\A p \in Procs :
            (loc[p].kind = "redirect" /\ loc[p].outcome = "Active")
              => ENABLED HandleRedirect(p))

\* the 302 of a redirect all three of whose side effects failed
C3_Witness == resp.status = 302 /\ resp.failed = AllSideEffects

\* C4, as claimed: while recordVisit (geo lookup, access_logs insert) is
\* pending the handler can send the redirect.
C4_RecordVisitDoesNotBlock ==
    \A p \in Procs : pc[p] \in {"geo", "createAccessLog"} => ENABLED RedirectRespond(p)

\* what the handler does instead: it sends nothing while recordVisit is pending
C4_RecordVisitIsAwaited ==
    \A p \in Procs : pc[p] \in {"geo", "createAccessLog"} => ~ENABLED RedirectRespond(p)

\* C5: recordVisit returns, and the handler can send the redirect, as soon as
\* the access_logs row is in, whatever the rollup it started is doing; and no
\* step of a rollup, failing or not, touches a request or a response.
C5_RollupFireAndForget ==
    /\ [](\A p \in Procs : pc[p] = "respond" => ENABLED RedirectRespond(p))
    /\ [][/\ \A p \in Procs : pc[p] = "createAccessLog" /\ pc'[p] # pc[p]
                                => pc'[p] = "respond"
          /\ (pc' = pc /\ tasks' # tasks) => (loc' = loc /\ resp' = resp)]_vars

\* the redirect is sent and the rollup it started has not finished
C5_Witness ==
    /\ resp.status = 302
    /\ \A p \in Procs : pc[p] = "idle"
    /\ tasks # {}

\* the row of links' that continues row l, unchanged but for its access_count
kept(l) ==
    \E m \in links' : /\ m.id = l.id
                      /\ m.short_code = l.short_code
                      /\ m.original_url = l.original_url
                      /\ m.expires_at = l.expires_at
                      /\ m.created_at = l.created_at

\* C6: the steps of a lookup that ends NotFound or Expired (getLink answering
\* so, then the raw read of the expired row) leave every table as it is: no
\* access_logs row, no access_count changed, no row deleted or modified, no
\* rollup started.
C6_FailedLookupHasNoEffect ==
    [][\A p \in Procs :
         (\/ LeavesGetLink(p) /\ getLinkAnswer(p) \in {"NotFound", "Expired"}
          \/ pc[p] = "getLinkRaw" /\ pc'[p] # "getLinkRaw")
           => /\ links' = links
              /\ accessLogs' = accessLogs
              /\ dailyStats' = dailyStats
              /\ tasks' = tasks]_vars

\* an expired link has been answered 410 and nothing was counted or logged
C6_Witness ==
    /\ resp.status = 410
    /\ accessLogs = {}
    /\ \E l \in links : l.short_code \in everExpired /\ l.access_count = 0

\* C7: no step of a redirect removes a row or changes its URL or expires_at;
\* rows go only in a delete or cleanup request; and the raw read of a code
\* whose row is there with an expires_at is answered 410 with that expires_at.
C7_ExpiredRowStays ==
    [][/\ \A p \in Procs, l \in links :
            (loc[p].kind = "redirect" /\ pc'[p] # pc[p]) => kept(l)
       /\ \A l \in links :
            (\A m \in links' : m.id # l.id) => run'.edits < run.edits
       /\ \A p \in Procs, l \in links :
            (/\ pc[p] = "getLinkRaw" /\ pc'[p] # "getLinkRaw"
             /\ run'.failed = run.failed
             /\ l.short_code = loc[p].code /\ l.expires_at # NULL)
              => resp'.status = 410 /\ resp'.expires_at = l.expires_at]_vars

\* the 410 is out and the expired row is still in the table
C7_Witness ==
    /\ resp.status = 410
    /\ \E l \in links : /\ l.short_code \in everExpired
                        /\ l.expires_at = resp.expires_at
                        /\ l.original_url = HttpsExampleCom

\* C8, as claimed: a code that getLink has answered Expired is never answered
\* Active afterwards.
C8_ExpiredIsTerminal ==
    [][\A p \in Procs :
         (LeavesGetLink(p) /\ getLinkAnswer(p) = "Active")
           => loc[p].code \notin everExpired]_vars

\* C8: a code that getLink has answered Expired is not answered Active
\* afterwards unless, in between, updateLink has set the expires_at of its row
\* or a row with that code has been inserted anew.
C8_ExpiredUntilRenewed ==
    [][\A p \in Procs :
         (LeavesGetLink(p) /\ getLinkAnswer(p) = "Active")
           => loc[p].code \notin expiredSince]_vars

\* one lookup of the code has been answered 410, the next is answered Expired
C8_Witness ==
    /\ resp.status = 410
    /\ \E p \in Procs : pc[p] = "getLinkRaw" /\ loc[p].code \in expiredSince

\* C9, as claimed: createLink without a custom slug, looking for an existing
\* link while the table holds a link of the same URL that has not expired,
\* answers with the code of a link of that URL and goes no further.
C9_CreateReusesUnexpiredLink ==
    [][\A p \in Procs :
         (/\ pc[p] = "findExistingLink" /\ pc'[p] # "findExistingLink"
          /\ loc[p].custom = NoSlug
          /\ run'.failed = run.failed
          /\ \E l \in links : /\ l.original_url = loc[p].url
                              /\ ~(l.expires_at # NULL /\ l.expires_at < now))
           => /\ pc'[p] = "idle"
              /\ resp'.body = "reused"
              /\ \E l \in links : /\ l.short_code = resp'.code
                                  /\ l.original_url = loc[p].url]_vars

\* C10: the insert of createLink does not look at the URL: with the statement
\* not failed and the code free it adds its row and answers 201, whatever
\* rows of the same URL are in the table by then.
C10_InsertIgnoresUrl ==
    [][\A p \in Procs :
         (/\ pc[p] = "insert" /\ pc'[p] # "insert"
          /\ run'.failed = run.failed
          /\ \A l \in links : l.short_code # loc[p].code)
           => /\ \E row \in links' : /\ links' = links \cup {row}
                                     /\ row \notin links
                                     /\ row.original_url = loc[p].url
                                     /\ row.short_code = loc[p].code
              /\ resp'.status = 201
              /\ resp'.code = loc[p].code]_vars

\* two links of one URL with generated codes, neither of which can have
\* expired before the other was created
C10_Witness ==
    \E a, b \in links :
        /\ a.original_url = b.original_url
        /\ a.short_code # b.short_code
        /\ {a.short_code, b.short_code} \subseteq Candidates(slugLength)
        /\ a.expires_at > MaxTime
        /\ b.expires_at > MaxTime

(***************************************************************************)
(* The link table's keys and the outcomes of createLink.                   *)
(***************************************************************************)
\* C11: no two rows of links share a short_code, whatever creations run side
\* by side, and no step changes the short_code of a row that stays.
C11_ShortCodeUniqueImmutable ==
    /\ [](\A a, b \in links : a.short_code = b.short_code => a = b)
    /\ [][\A l \in links : \A m \in links' :
            m.id = l.id => m.short_code = l.short_code]_vars

\* two creations ran side by side for one code: one row has it, the other
\* insert was turned down with no statement of the run having failed at random
C11_Witness ==
    /\ run.failed = 0
    /\ resp.body = "InternalError"
    /\ \E l \in links : l.short_code = resp.code

\* the insert of request p, for a generated code, is turned down by the
\* UNIQUE constraint alone while the generator has attempts left
rejectedInsert(p) ==
    /\ pc[p] = "insert" /\ pc'[p] # "insert"
    /\ loc[p].custom = NoSlug
    /\ loc[p].attempts < maxRetries
    /\ run'.failed = run.failed
    /\ getLinkByShortCode(links, loc[p].code) # {}

\* C12, as claimed: a createLink whose insert of a generated code is turned
\* down by the uniqueness constraint goes on to another candidate, as after a
\* collision found by the pre-check.
C12_RejectedInsertRetries ==
    [][\A p \in Procs : rejectedInsert(p) => pc'[p] = "generateSlug"]_vars

\* what createLink does instead: the rejection ends the call in its catch
\* block, with the internal error and no row of its own
C12_RejectedInsertFails ==
    [][\A p \in Procs :
         rejectedInsert(p) => /\ pc'[p] = "idle"
                              /\ resp'.body = "InternalError"
                              /\ links' = links]_vars

\* request p, a createLink with a custom slug, ends in this step while a row
\* with that slug is in the table, no statement having failed at random
endsOnTakenSlug(p) ==
    /\ pc[p] \in {"shortCodeExists", "insert"} /\ pc'[p] = "idle"
    /\ loc[p].custom # NoSlug
    /\ run'.failed = run.failed
    /\ getLinkByShortCode(links, loc[p].code) # {}

\* C13, as claimed: a createLink whose custom slug is taken always answers
\* with the conflict error (409), never with the internal or the generation
\* error.
C13_TakenSlugIsConflict ==
    [][\A p \in Procs :
         endsOnTakenSlug(p) => resp'.status = 409 /\ resp'.body = "conflict"]_vars

\* what createLink does: the other failures are told apart, and a slug found
\* taken by the pre-check is a conflict; a slug taken after the pre-check
\* ends in the internal error
C13_FailuresOfCreateLink ==
    [][\A p \in Procs :
         /\ (pc[p] = "shortCodeExists" /\ endsOnTakenSlug(p))
              => resp'.status = 409 /\ resp'.body = "conflict"
         /\ (pc[p] = "insert" /\ endsOnTakenSlug(p))
              => resp'.status = 500 /\ resp'.body = "InternalError"
         /\ (pc[p] = "generateSlug" /\ pc'[p] = "idle")
              => /\ resp'.status = 500 /\ resp'.body = "generation-failed"
                 /\ loc[p].attempts + 1 = maxRetries
         /\ (pc[p] = "findExistingLink" /\ pc'[p] = "idle" /\ resp'.status # 201)
              => /\ resp'.status = 400 /\ resp'.body = "invalid-custom-slug"
                 /\ validateCustomSlug(loc[p].custom, customSlugConfig).errors # {}
         /\ (Free(p) /\ loc'[p] = NoLoc /\ pc'[p] = "idle" /\ run'.creates < run.creates)
              => resp'.status = 400 /\ resp'.body = "invalid-url"]_vars

\* request p, a createLink, takes this step
createStep(p) ==
    /\ pc'[p] # pc[p] \/ loc'[p] # loc[p] \/ run'.creates < run.creates
    /\ \/ loc[p].kind = "create"
       \/ Free(p) /\ run'.creates < run.creates

\* C14: of all the steps of createLink only the insert that answers 201 with
\* the new link changes the tables; every call that answers with a failure
\* (invalid URL, invalid or unsafe custom slug, slug taken, generation
\* exhausted, internal error) leaves them as they were.
C14_FailedCreateLeavesStore ==
    [][\A p \in Procs :
         createStep(p)
           => \/ UNCHANGED store
              \/ /\ pc[p] = "insert" /\ pc'[p] = "idle"
                 /\ resp'.status = 201 /\ resp'.body = "created"]_vars

\* a custom slug with a reserved word ("admin1") has been refused with the
\* rows of earlier calls in place
C14_Witness ==
    /\ resp.status = 400 /\ resp.body = "invalid-custom-slug"
    /\ links # {}

(***************************************************************************)
(* The expiry rule and the slug utilities (SlugSpec).                      *)
(***************************************************************************)
\* C15: the expires_at createLink stores is null with expiration disabled;
\* with it enabled it is the request's expiresAt if given, else expireDays
\* days from now if given, else the default number of days from now.
C15_ExpiryPrecedence ==
    (call.fn = "computeExpiresAt" /\ call.done) =>
        /\ ~call.enabled => call.result = NULL
        /\ (call.enabled /\ call.expiresAt # NULL) => call.result = call.expiresAt
        /\ (call.enabled /\ call.expiresAt = NULL /\ call.expireDays # 0)
              => call.result = call.at + call.expireDays * TicksPerDay
        /\ (call.enabled /\ call.expiresAt = NULL /\ call.expireDays = 0)
              => call.result = call.at + defaultExpireDays * TicksPerDay

\* both expiresAt and expireDays were given, and they disagree
C15_Witness ==
    /\ call.fn = "computeExpiresAt" /\ call.done /\ call.enabled
    /\ call.expiresAt # NULL /\ call.expireDays # 0
    /\ call.expiresAt # call.at + call.expireDays * TicksPerDay
    /\ call.result = call.expiresAt

\* C16: generateSlug makes at most maxRetries attempts: every turn of its
\* loop, whether the candidate is rejected for its format, rejected as
\* unsafe, found to exist or returned, adds exactly one attempt; while it has
\* not returned it can take a step; a failure is returned with exactly
\* maxRetries attempts and the max-retries error, a success with 1 to
\* maxRetries attempts.
C16_GenerateSlugWithinBudget ==
    /\ [][GenerateSlugTurn => /\ call'.attempts = call.attempts + 1
                              /\ call'.verdict \in {"format", "unsafe", "collision", "accepted"}
                              /\ call'.done <=> call'.verdict = "accepted"]_vars
    /\ [](call.fn = "generateSlug" =>
            /\ call.attempts <= call.finalConfig.maxRetries
            /\ ~call.done => ENABLED GenerateSlug
            /\ (call.done /\ ~call.success)
                  => /\ call.attempts = call.finalConfig.maxRetries
                     /\ call.verdict = "max-retries"
            /\ (call.done /\ call.success)
                  => /\ 1 <= call.attempts
                     /\ call.attempts <= call.finalConfig.maxRetries)

\* the budget of the test (maxRetries 3) is used up by candidates that all exist
C16_Witness ==
    /\ call.fn = "generateSlug" /\ call.done /\ ~call.success
    /\ call.config = [maxRetries |-> 3]
    /\ call.attempts = 3

\* the call leaves the format limits at their defaults
defaultLimits(config) ==
    LET c == Merge(DEFAULT_CONFIG, config)
    IN  /\ c.minLength = DEFAULT_CONFIG.minLength
        /\ c.maxLength = DEFAULT_CONFIG.maxLength
        /\ c.customChars = DEFAULT_CONFIG.customChars
        /\ c.excludeChars = DEFAULT_CONFIG.excludeChars

\* C17: a slug that generateSlug returns under the default limits has 4 to 16
\* characters, all of them Base62, is safe (no reserved word, not digits
\* only), and is a candidate the existsChecker answered false for, however
\* many collisions and lengthenings went before.
C17_GeneratedSlugIsSound ==
    (call.fn = "generateSlug" /\ call.done /\ call.success /\ defaultLimits(call.config))
      => /\ Len(call.slug) >= 4 /\ Len(call.slug) <= 16
         /\ \A i \in 1..Len(call.slug) : call.slug[i] \in BASE62_CHARS
         /\ isSafeSlug(call.slug)
         /\ ~includes(call.slug, <<"a","d","m","i","n">>)
         /\ \E i \in 1..Len(call.slug) : call.slug[i] \notin Digits
         /\ ~call.exists

\* a slug is returned after collisions have lengthened the candidates
C17_Witness ==
    /\ call.fn = "generateSlug" /\ call.done /\ call.success
    /\ call.config = NoConfig
    /\ Len(call.slug) > DEFAULT_CONFIG.length

\* the length a collision in the turn just made leaves, should it grow from
\* the given number of attempts on
lengthAfter(grows) ==
    IF call'.verdict = "collision" /\ grows
    THEN IF call.finalConfig.length + 1 <= call.finalConfig.maxLength
         THEN call.finalConfig.length + 1 ELSE call.finalConfig.maxLength
    ELSE call.finalConfig.length

\* C18, as claimed: a collision lengthens the candidates by one (up to
\* maxLength) exactly when the attempts made so far are more than half of
\* maxRetries; a format or safety rejection never does.
C18_LengthGrowsAboveHalf ==
    [][GenerateSlugTurn =>
         call'.finalConfig.length =
             lengthAfter(2 * call'.attempts > call.finalConfig.maxRetries)]_vars

\* C18: a collision lengthens the candidates by one (up to maxLength) exactly
\* when the attempts made so far, the current one included, are at least
\* floor(maxRetries / 2); a format or safety rejection never does; the length
\* never exceeds maxLength.
C18_LengthGrowsFromHalf ==
    /\ [][GenerateSlugTurn =>
            call'.finalConfig.length =
                lengthAfter(2 * call'.attempts + 1 >= call.finalConfig.maxRetries)]_vars
    /\ [](call.fn = "generateSlug" => call.finalConfig.length <= call.finalConfig.maxLength)

\* the fifth of ten attempts collides and the length goes from 6 to 7
C18_Witness ==
    /\ call.fn = "generateSlug" /\ call.config = NoConfig
    /\ call.verdict = "collision" /\ call.attempts = 5
    /\ call.lengthBefore = 6 /\ call.finalConfig.length = 7

suggesting == call.fn = "generateSlugSuggestions"

\* C19, as claimed: generateSlugSuggestions(base, count) returns, for every
\* base and every count, and what it returns are count different strings.
C19_SuggestionsReturned ==
    suggesting ~> (call.done /\ Cardinality(call.suggestions) = call.count)

\* what holds: a call that returns returns count different strings, and a
\* call returns if no base is given, if the base has not the format of a
\* slug, or if base + two characters can be a safe slug of the format
C19_ReturnsCountIfItReturns ==
    (suggesting /\ call.done) => Cardinality(call.suggestions) = call.count

C19_ReturnsForFreeBase ==
    (/\ suggesting
     /\ \/ call.input = NoSlug
        \/ ~isValidSlugFormat(call.input, call.finalConfig)
        \/ \E randomSuffix \in generateRandomSlug(2, call.finalConfig.customChars) :
              keeps(call.input \o randomSuffix, call.finalConfig))
      ~> call.done

\* ... and a call with a base that has the format of a slug, of which count
\* numbered variants cannot be kept and no variant with two more characters
\* can, stays in its first while loop
C19_StuckInSuffixLoop ==
    [](( /\ suggesting /\ call.stage = "suffix"
         /\ Cardinality(call.suggestions) < call.count
         /\ \A randomSuffix \in generateRandomSlug(2, call.finalConfig.customChars) :
               ~keeps(call.input \o randomSuffix, call.finalConfig) )
        => [](call.stage = "suffix" /\ ~call.done))

\* validateCustomSlug has answered: valid exactly for a trimmed input that has
\* the format and is safe, then with the trimmed input and no error, and
\* otherwise with an error
validatedAsFormatAndSafe ==
    LET s == trim(call.input)
    IN  /\ call.validation.isValid
             <=> (isValidSlugFormat(s, call.config) /\ isSafeSlug(s))
        /\ call.validation.isValid
             => call.validation.slug = s /\ call.validation.errors = {}
        /\ ~call.validation.isValid => call.validation.errors # {}

\* C20, as claimed: validateCustomSlug(s, config) answers isValid = true
\* exactly when the trimmed s passes isValidSlugFormat under that config
\* (lengths, charset, excluded characters) and isSafeSlug, then with the
\* trimmed s as slug and no errors; otherwise isValid = false with errors.
C20_ValidIffFormatAndSafe ==
    (call.fn = "validateCustomSlug" /\ call.done) => validatedAsFormatAndSafe

\* what holds: the same for a config that sets no charset and no excluded
\* characters, such as the one createLink passes
C20_ValidIffFormatAndSafeByLength ==
    (/\ call.fn = "validateCustomSlug" /\ call.done
     /\ DOMAIN call.config \subseteq {"minLength", "maxLength"})
      => validatedAsFormatAndSafe

\* C21: the Base62 codec round-trips: for every non-negative integer n below
\* 10^12, base62ToNumber(numberToBase62(n)) is n, and numberToBase62(n) is
\* never the empty string; numberToBase62(0) is the first character of the
\* alphabet alone, "a".
C21_Base62RoundTrip ==
    (call.fn = "base62" /\ call.done) =>
        /\ call.decoded = [threw |-> FALSE, value |-> call.num]
        /\ call.encoded # << >>
        /\ (call.num = Zero => call.encoded = << "a" >>)

\* the greatest number below 10^12 has gone through the codec, as seven
\* characters
C21_Witness ==
    /\ call.fn = "base62" /\ call.done
    /\ call.num = Num(Limb - 1, Limb - 1)
    /\ Len(call.encoded) = 7
    /\ call.decoded.value = call.num

\* a path that ends in two slashes or more
endsInSlashes(url) ==
    \E i \in 1..(Len(url) - 1) :
        /\ url[i] = "/" /\ url[i + 1] = "/"
        /\ i > Len(HttpsPrefix)
        /\ (i + 1 = Len(url) \/ url[i + 2] \in {"?", "#"})

\* C22: normalizeUrl is idempotent: normalizeUrl(normalizeUrl(u)) is
\* normalizeUrl(u) for every text u, a path ending in more than one slash,
\* another scheme than http(s) and a text whose normalization fails included.
C22_NormalizeUrlIdempotent ==
    (call.fn = "normalizeUrl" /\ call.done) => call.twice = call.once

\* ... which holds for every text whose path does not end in two slashes
C22_IdempotentButForSlashes ==
    (call.fn = "normalizeUrl" /\ call.done /\ ~endsInSlashes(trim(call.input))) =>
        call.twice = call.once

\* one slash is taken off at a time
C22_OneSlashAtATime ==
    (call.fn = "normalizeUrl" /\ call.done /\ call.twice # call.once) =>
        /\ call.once = call.twice \o <<"/">>
        /\ endsInSlashes(trim(call.input))

\* the rows of the day in the table handed to the rollup
rowsOfDay == {l \in call.logs : formatDateToYMD(l.accessed_at) = call.today}

statsOfDay ==
    [ total_visits |-> Cardinality(rowsOfDay),
      unique_visitors |-> Cardinality({l.ip_address : l \in rowsOfDay}),
      mobile_visits |-> Cardinality({l \in rowsOfDay : l.device_type = "mobile"}),
      desktop_visits |-> Cardinality({l \in rowsOfDay : l.device_type = "desktop"}),
      tablet_visits |-> Cardinality({l \in rowsOfDay : l.device_type = "tablet"}),
      bot_visits |-> Cardinality({l \in rowsOfDay : l.device_type = "bot"}) ]

\* C23: after the rollup of a visit has run without interference the day's
\* row has total_visits equal to the number of the link's access logs of
\* that day, unique_visitors equal to the number of distinct addresses among
\* them and the mobile, desktop, tablet and bot counts equal to the rows of
\* each device type, for any number of rows of that day and of other days.
C23_RollupCountsTheDay ==
    (call.fn = "updateDailyStatsAsync" /\ call.done) => call.stats = statsOfDay

\* ... which holds while the day has no more rows than the rollup reads
C23_RollupCountsUpToLimit ==
    (call.fn = "updateDailyStatsAsync" /\ call.done
        /\ Cardinality(rowsOfDay) <= AccessLogLimit) => call.stats = statsOfDay

\* beyond that the total stays at the limit
C23_TotalStaysAtLimit ==
    (call.fn = "updateDailyStatsAsync" /\ call.done
        /\ Cardinality(rowsOfDay) > AccessLogLimit) =>
        call.stats.total_visits = AccessLogLimit

\* the scenario of five rows: 5 visits, 3 visitors, 2 mobile, 3 desktop
C23_FiveVisits ==
    (call.fn = "updateDailyStatsAsync" /\ call.done /\ call.logs = FiveVisits) =>
        /\ call.stats.total_visits = 5 /\ call.stats.unique_visitors = 3
        /\ call.stats.mobile_visits = 2 /\ call.stats.desktop_visits = 3

\* C24: in every reachable state daily_stats has at most one row for a
\* (link_id, date), however the rollups of visits to one link and the
\* aggregation of performCleanup interleave, two first visits of a day racing
\* in getOrCreateDailyStats included; the rollup that loses the race is
\* rejected on its own: the step that rejects it touches no request, and the
\* redirect that started it answers 302.
C24_OneStatsRowPerDay ==
    /\ [](\A d1, d2 \in dailyStats :
            (d1.link_id = d2.link_id /\ d1.date = d2.date) => d1 = d2)
    /\ [][(taskFailed' # taskFailed) => (pc' = pc /\ loc' = loc /\ resp' = resp)]_vars
    /\ [][\A p \in Procs :
            (pc[p] = "respond" /\ pc'[p] = "idle") => resp'.status = 302]_vars

\* two visits of one link on one day, both rollups at the INSERT: the second
\* one was rejected with no statement of the database failing, the day has
\* its one row and the last redirect was answered 302
C24_Witness ==
    /\ taskFailed # {} /\ run.failed = 0
    /\ tasks = {} /\ \A p \in Procs : pc[p] = "idle"
    /\ resp.status = 302
    /\ \E l \in links :
         /\ Cardinality(logsOf(l)) = 2
         /\ Cardinality({d \in dailyStats : d.link_id = l.id}) = 1

\* the aggregation has replaced the row a rollup had written for the day
C24_AggregatedOverRollup ==
    /\ resp.body = "aggregated"
    /\ \E d \in dailyStats : d.created_at = now /\ d.stats.total_visits = 2
    /\ taskFailed = {}

\* C25: no step decreases the access_count of a links row: a row that is
\* still there after a step (same id) has an access_count at least as high as
\* before, whatever the step was -- a redirect, an update with any body
\* (accessCount: 0 included), a creation that reuses the row, a deletion or a
\* cleanup of other rows -- and a row that a step has inserted starts at 0.
C25_AccessCountMonotonic ==
    [][\A m \in links' :
         /\ \A l \in links : l.id = m.id => m.access_count >= l.access_count
         /\ (\A l \in links : l.id # m.id) => m.access_count = 0]_vars

\* a link that was visited has then been updated with the body that names
\* accessCount: 0 (the one body with both a URL and an expiresAt): the row
\* has the new URL and expiry, and still its count
C25_Witness ==
    /\ resp.status = 200 /\ resp.body = "updated"
    /\ resp.url # NoUrl /\ resp.expires_at = MaxTime + 1
    /\ \E l \in links : /\ l.original_url = resp.url
                        /\ l.expires_at = MaxTime + 1
                        /\ l.access_count >= 1

\* the step in which request p of the toggle route is answered
toggleAnswered(p) == pc[p] = "toggleUpdateLink" /\ pc'[p] = "idle"

\* C26: each successful toggle flips the link's stored active flag: a
\* successful toggle that follows a successful toggle of the same link reports
\* the opposite isActive, and a GET /links/code/:shortCode that follows a
\* successful toggle of the link reads back the isActive the toggle reported.
C26_ToggleFlipsStoredFlag ==
    [][/\ \A p \in Procs :
            ( /\ toggleAnswered(p)
              /\ resp.body = "toggled" /\ resp'.body = "toggled"
              /\ resp'.code = resp.code )
            => resp'.isActive # resp.isActive
       /\ ( /\ resp.body = "toggled" /\ resp'.body = "link"
            /\ resp'.code = resp.code )
          => resp'.isActive = resp.isActive]_vars

\* every successful toggle reports isActive: true and changes no row
C26_ToggleReportsTrue ==
    [][\A p \in Procs :
         toggleAnswered(p) =>
            /\ links' = links
            /\ resp'.body = "toggled" => resp'.isActive = "true"]_vars

\* the detail route never reads the flag back: isActive is undefined
C26_DetailHasNoFlag ==
    resp.body = "link" => resp.isActive = "undefined"

\* a toggle has succeeded and the budget for a second one is spent
C26_ToggledTwice ==
    resp.body = "toggled" /\ run.toggles = MaxToggles - 2 /\ run.failed = 0

\* GET /<code> gets as far as linkService.getLink
reachesResolver(code) == routeAccepts(code) /\ isValidShortCodeFormat(code)

\* a code createLink can store: a custom slug validateCustomSlug has accepted
\* under createLink's config, or a code generateSlug has returned under it
storableCodes ==
    (IF /\ call.fn = "validateCustomSlug" /\ call.done
        /\ call.config = customSlugConfig /\ call.validation.isValid
     THEN {call.validation.slug} ELSE {})
    \cup
    (IF /\ call.fn = "generateSlug" /\ call.done /\ call.success
        /\ call.config = slugConfig
     THEN {call.slug} ELSE {})

\* C27: every short code that createLink can store -- a custom slug accepted
\* by validateCustomSlug, or a code returned by generateSlug -- passes the
\* filter of the route GET /:shortCode and isValidShortCodeFormat, so that
\* its redirect reaches the resolver.
C27_StoredCodeReachesResolver ==
    \A code \in storableCodes : reachesResolver(code)

\* every storable code passes isValidShortCodeFormat, and the route turns
\* away only those that start with "health" or "static"
C27_OnlyRoutePrefixesTurnedAway ==
    \A code \in storableCodes :
        /\ isValidShortCodeFormat(code)
        /\ ~routeAccepts(code) =>
              \/ startsWith(code, <<"h","e","a","l","t","h">>)
              \/ startsWith(code, <<"s","t","a","t","i","c">>)

\* the custom slug "healthy1" is accepted and the route answers 404 for it
C27_AcceptedSlugTurnedAway ==
    /\ call.fn = "validateCustomSlug" /\ call.done
    /\ call.validation.isValid
    /\ call.validation.slug = <<"h","e","a","l","t","h","y","1">>
    /\ ~routeAccepts(call.validation.slug)

\* generateSlug has returned "static", which the route answers 404 for
C27_GeneratedCodeTurnedAway ==
    /\ call.fn = "generateSlug" /\ call.done /\ call.success
    /\ call.config = slugConfig
    /\ call.slug = <<"s","t","a","t","i","c">>
    /\ ~routeAccepts(call.slug)

\* the requests that have incremented the count of l and not yet returned
inFlight(l) == {p \in Procs : pc[p] \in {"geo", "createAccessLog", "respond"} /\ loc[p].id = l.id}

\* C28: no increment of access_count is lost: while no statement of the
\* database has failed, once the redirects of a link have all returned,
\* however they interleaved, its access_count is the number of redirects made
\* of it (each has left one access_logs row), and at any moment it is at least
\* the number of redirects in flight that have incremented it.
C28_NoLostIncrement ==
    run.failed = 0 =>
        \A l \in links :
            /\ l.access_count >= Cardinality(inFlight(l))
            /\ inFlight(l) = {} => l.access_count = Cardinality(logsOf(l))

\* two redirects of one link are in flight at a time, both past the
\* increment and before the access log, and the count is 2
C28_Witness ==
    /\ run.failed = 0
    /\ \E l \in links :
         /\ l.access_count = 2
         /\ logsOf(l) = {}
         /\ Cardinality({p \in Procs : pc[p] = "geo" /\ loc[p].id = l.id}) = 2

\* the access_logs rows of link l made on the day date
logsOfDay(l, date) == {a \in logsOf(l) : formatDateToYMD(a.accessed_at) = date}

\* C29: daily stats converge: once every rollup started by the visits has
\* finished (and no statement of the database has failed), each daily_stats
\* row's total_visits is the number of access_logs rows of its link and day,
\* and every day with a visit has its row.
C29_DailyStatsConverge ==
    (tasks = {} /\ run.failed = 0) =>
        \A l \in links :
            /\ \A d \in dailyStats :
                 d.link_id = l.id =>
                    d.stats.total_visits = Cardinality(logsOfDay(l, d.date))
            /\ \A a \in logsOf(l) :
                 \E d \in dailyStats :
                    d.link_id = l.id /\ d.date = formatDateToYMD(a.accessed_at)

\* a row never counts more visits than its day has, and every day with a
\* visit has its row once the rollups have finished
C29_NeverOverCounts ==
    /\ \A l \in links : \A d \in dailyStats :
         d.link_id = l.id =>
            d.stats.total_visits <= Cardinality(logsOfDay(l, d.date))
    /\ (tasks = {} /\ run.failed = 0) =>
         \A l \in links : \A a \in logsOf(l) :
            \E d \in dailyStats :
               d.link_id = l.id /\ d.date = formatDateToYMD(a.accessed_at)

\* two visits of a day, both rollups finished, none rejected and nothing but
\* visits made: the row counts one visit
C29_StaleRollupWroteLast ==
    /\ tasks = {} /\ taskFailed = {} /\ run.failed = 0
    /\ run.edits = 0 /\ run.parallel = MaxProcs
    /\ \A p \in Procs : pc[p] = "idle"
    /\ \E l \in links : \E d \in dailyStats :
         /\ d.link_id = l.id
         /\ Cardinality(logsOfDay(l, d.date)) = 2
         /\ d.stats.total_visits = 1

\* the step that is a cleanupExpiredLinks
cleanupStep == run'.edits = run.edits - 1 /\ resp'.body = "cleaned"

C30_ExpiredRowSurvives ==
    /\ resp.body = "cleaned" /\ run.failed = 0
    /\ run.edits = MaxEdits - 1
    /\ \E l \in links : isExpired(l, now)

=============================================================================
